---- MODULE Spec2Model ----
(***************************************************************************)
(* alpha_bot: the event lifecycle pipeline.                                *)
(*                                                                         *)
(*   collector/alpha_watch.py   run_once      (combined orchestrator tick) *)
(*   notifier/dispatch.py       dispatch_once (dispatch-only tick)         *)
(*   persistence/repository.py  Repository    (events, notifications, logs)*)
(*   notifier/spug.py           SpugNotifier  (send with bounded retry)    *)
(*   collector/timeutil.py      parse_event_time                           *)
(*                                                                         *)
(* Instants are minutes since local midnight of day 0 (2024-05-26).        *)
(***************************************************************************)
EXTENDS Integers, Sequences, FiniteSets, TLC

VARIABLES
    clock,      \* wall clock of the host (minutes)
    advances,   \* number of clock advances made so far
    events,     \* table alpha_events: row i has id i
    notifs,     \* table alpha_notifications: row i has id i
    logs,       \* table alpha_notification_logs (append-only)
    pc,         \* position of dispatch_once: "idle" | "loop" | "log" | "mark"
    dnow,       \* `now` of the running dispatch_once
    tasks,      \* tasks of the running dispatch_once still to be handled
    res,        \* outcome of the current task between send and log/mark
    hist,       \* per notification id: what the ticks did with it
    cfg,        \* SpugConfig of the notifier of the running dispatch_once
    dead,       \* the worker processes an exception has ended
    last,       \* what the step taken last was, where the properties need it
    arg,        \* arguments of the function applied last, taken on its own
    ret,        \* what that function returned
    state,      \* StateStore._state: the keys marked, each with its instant
    marked,     \* the keys mark_notified was ever called with
    db          \* a Database (_pool, _lock) and the connect calls on it

\* the objects no tick of the workers touches
aux == <<state, marked, db>>

vars == <<clock, advances, events, notifs, logs, pc, dnow, tasks, res, hist,
          cfg, dead, last, arg, ret, state, marked, db>>

----------------------------------------------------------------------------
(* Bounds of the model *)

MaxEvents == 2
MaxBatch == 2
MaxAdvances == 2
MaxList == 3

(* Program constants *)

ReminderOffset == 30
RetryAttempts == 3
HttpErrorFloor == 300
RolloverSlack == 60
MinutesPerDay == 1440

NoTime == 0 - 1

Day(t) == t \div MinutesPerDay

\* strftime("%Y-%m-%d") of an instant of day d
DateStr(d) == IF d = 0 THEN "2024-05-26" ELSE IF d = 1 THEN "2024-05-27" ELSE "2024-05-28"

----------------------------------------------------------------------------
(* Inputs *)

\* raw time strings, by the shape the parsers see
HHMM(h, m) == [kind |-> "hhmm", d |-> 0, h |-> h, m |-> m]      \* "10:20"
IsoT(d, h, m) == [kind |-> "iso", d |-> d, h |-> h, m |-> m]    \* "2024-05-26T11:00"
TBA == [kind |-> "tba", d |-> 0, h |-> 0, m |-> 0]              \* "TBA"

\* details: the keys the pipeline reads; "absent" is a missing key (None)
NoDate == [date |-> "absent", Date |-> "absent"]

\* Events as fetch_events returns them (section today, start_time absent):
\* timed events, and events the later steps drop or skip
Ev(token, raw, details) ==
    [token |-> token, raw_time |-> raw, details |-> details,
     start_time |-> NoTime, section |-> "today"]

EventInputs ==
    {Ev("OMEGA", HHMM(10, 20), NoDate),      \* persisted, reminder at 09:50
     Ev("ALPHA", HHMM(11, 0), NoDate),       \* persisted, reminder at 10:30
     Ev("BETA", IsoT(0, 11, 0), NoDate),     \* kept by the tick, skipped by upsert_events
     Ev("BETA", TBA, NoDate)}                \* dropped by the tick

\* the lists fetch_events can return: no event twice (_deduplicate)
Batches ==
    UNION {{b \in [1..k -> EventInputs] : \A i, j \in 1..k : i # j => b[i] # b[j]} :
              k \in 0..MaxBatch}

Channels == {"voice"}

----------------------------------------------------------------------------
(* Python helpers *)

Truthy(v) == v \notin {"absent", ""}

\* a or b
PyOr(a, b) == IF Truthy(a) THEN a ELSE b

Min(a, b) == IF a <= b THEN a ELSE b

----------------------------------------------------------------------------
(* collector/timeutil.py *)

\* fault variant: the clock time on the date of reference, no rollover
_parse_hhmm_same_day(raw, reference) ==
    Day(reference) * MinutesPerDay + raw.h * 60 + raw.m

\* the ValueError that time(hour, minute) raises, as the outcome of a call
ValueError == 0 - 2

\* time(hour, minute) raises for an hour above 23 or a minute above 59, and
\* nothing up to the tick catches it
_parse_hhmm(raw, reference) ==
    LET candidate == Day(reference) * MinutesPerDay + raw.h * 60 + raw.m
    IN  IF raw.h > 23 \/ raw.m > 59 THEN ValueError
        ELSE IF candidate < reference - RolloverSlack
        THEN candidate + MinutesPerDay
        ELSE candidate

parse_event_time(raw, reference) ==
    IF raw.kind = "tba" THEN NoTime
    ELSE IF raw.kind = "iso" THEN raw.d * MinutesPerDay + raw.h * 60 + raw.m
    ELSE _parse_hhmm(raw, reference)

\* no quiet window configured (None)
NoWindow == <<>>

\* fault variant: the window taken as [start, end) whatever the order
in_quiet_hours_no_wrap(now, quiet_window) ==
    IF quiet_window = NoWindow THEN FALSE
    ELSE LET now_time == now % MinutesPerDay
         IN  quiet_window[1] <= now_time /\ now_time < quiet_window[2]

\* quiet_window is (start, end), clock times in minutes of the day
in_quiet_hours(now, quiet_window) ==
    IF quiet_window = NoWindow THEN FALSE
    ELSE LET start == quiet_window[1]
             end == quiet_window[2]
             now_time == now % MinutesPerDay
         IN  IF start <= end
             THEN start <= now_time /\ now_time < end
             ELSE now_time >= start \/ now_time < end

----------------------------------------------------------------------------
(* persistence/repository.py *)

\* re.search(r"\b\d{1,2}:\d{2}\b", raw_time): "10:20" matches, "TBA" and
\* "2024-05-26T11:00" (no word boundary before the hour) do not
_is_valid_time_format(raw) == raw.kind \in {"hhmm", "digits"}

\* fault variant: no date guard
SkipByDate_never(event, now) == FALSE

\* Guard A of upsert_events: details.date present and not today's date
SkipByDate(event, now) ==
    LET dval == PyOr(event.details.date, event.details.Date)
    IN  dval # "absent" /\ dval # DateStr(Day(now))

\* fault variant: the lookup finds no row
SelectEventId_none(tbl, token, raw) == 0

\* SELECT id FROM alpha_events WHERE token=%s AND raw_time=%s (fetchone)
SelectEventId(tbl, token, raw) ==
    LET hits == {i \in 1..Len(tbl) : tbl[i].token = token /\ tbl[i].raw_time = raw}
    IN  IF hits = {} THEN 0 ELSE CHOOSE i \in hits : \A j \in hits : i <= j

EventRow(event) ==
    [token |-> event.token, raw_time |-> event.raw_time,
     start_time |-> event.start_time, details |-> event.details]

\* The loop of upsert_events. The UPDATE statement of the found-row branch
\* ends its SET list with a comma before WHERE: the server rejects it and
\* the call raises with the rows inserted so far committed (autocommit).
RECURSIVE upsert_loop(_, _, _, _)
upsert_loop(evs, now, tbl, ids) ==
    IF evs = <<>> THEN [events |-> tbl, ids |-> ids, raised |-> FALSE, found |-> 0]
    ELSE LET event == Head(evs)
         IN  IF SkipByDate(event, now) THEN upsert_loop(Tail(evs), now, tbl, ids)
             ELSE IF ~_is_valid_time_format(event.raw_time)
                  THEN upsert_loop(Tail(evs), now, tbl, ids)
             ELSE IF SelectEventId(tbl, event.token, event.raw_time) # 0
                  THEN [events |-> tbl, ids |-> ids, raised |-> TRUE,
                        found |-> SelectEventId(tbl, event.token, event.raw_time)]
             ELSE LET tbl2 == Append(tbl, EventRow(event))
                  IN  upsert_loop(Tail(evs), now, tbl2,
                          Append(ids, SelectEventId(tbl2, event.token, event.raw_time)))

\* fault variant: no lookup of the existing row, every event is inserted and
\* gets the id of the new row
RECURSIVE insert_loop(_, _, _, _)
insert_loop(evs, now, tbl, ids) ==
    IF evs = <<>> THEN [events |-> tbl, ids |-> ids, raised |-> FALSE, found |-> 0]
    ELSE LET event == Head(evs)
         IN  IF SkipByDate(event, now) \/ ~_is_valid_time_format(event.raw_time)
             THEN insert_loop(Tail(evs), now, tbl, ids)
             ELSE insert_loop(Tail(evs), now, Append(tbl, EventRow(event)),
                      Append(ids, Len(tbl) + 1))

upsert_events_insert_only(evs, now, tbl) == insert_loop(evs, now, tbl, <<>>)

upsert_events(evs, now, tbl) == upsert_loop(evs, now, tbl, <<>>)

\* schema: UNIQUE (event_id, offset_minutes, remind_at) on alpha_notifications
NotificationKey(row) == <<row.event_id, row.offset_minutes, row.remind_at>>

\* schema: column defaults of a new alpha_notifications row
NotificationDefaults ==
    [status |-> "pending", attempts |-> 0, sent_at |-> "NULL", fail_reason |-> ""]

\* fault variant: a plain INSERT, a second row for a key that exists
_create_notification_task_plain_insert(ntf, event_id, event, offset, remind_at, channel) ==
    Append(ntf, [event_id |-> event_id, offset_minutes |-> offset,
                 remind_at |-> remind_at, channel |-> channel,
                 meta_token |-> event.token,
                 status |-> NotificationDefaults.status,
                 attempts |-> NotificationDefaults.attempts,
                 sent_at |-> NotificationDefaults.sent_at,
                 fail_reason |-> NotificationDefaults.fail_reason])

\* INSERT IGNORE INTO alpha_notifications (...)
_create_notification_task(ntf, event_id, event, offset, remind_at, channel) ==
    LET row == [event_id |-> event_id, offset_minutes |-> offset,
                remind_at |-> remind_at, channel |-> channel,
                meta_token |-> event.token,
                status |-> NotificationDefaults.status,
                attempts |-> NotificationDefaults.attempts,
                sent_at |-> NotificationDefaults.sent_at,
                fail_reason |-> NotificationDefaults.fail_reason]
    IN  IF \E i \in 1..Len(ntf) : NotificationKey(ntf[i]) = NotificationKey(row)
        THEN ntf
        ELSE Append(ntf, row)

\* for event_id, event in zip(event_ids, events); current_ts is time.time()
RECURSIVE ensure_loop(_, _, _, _, _, _)
ensure_loop(ids, evs, k, channel, current_ts, ntf) ==
    IF k > Min(Len(ids), Len(evs)) THEN ntf
    ELSE LET event == evs[k]
         IN  IF event.start_time = NoTime
             THEN ensure_loop(ids, evs, k + 1, channel, current_ts, ntf)
             ELSE IF current_ts - ReminderOffset >= event.start_time
             THEN ensure_loop(ids, evs, k + 1, channel, current_ts, ntf)
             ELSE ensure_loop(ids, evs, k + 1, channel, current_ts,
                      _create_notification_task(ntf, ids[k], event, ReminderOffset,
                          event.start_time - ReminderOffset, channel))

ensure_notifications(ids, evs, channel, current_ts, ntf) ==
    ensure_loop(ids, evs, 1, channel, current_ts, ntf)

\* fault variant: the WHERE clause without n.status='pending'
DueIds_any_status(ntf, tbl, now) ==
    {i \in 1..Len(ntf) : /\ ntf[i].remind_at <= now
                         /\ ntf[i].event_id \in 1..Len(tbl)}

\* WHERE n.status='pending' AND n.remind_at <= now, JOIN alpha_events
DueIds(ntf, tbl, now) ==
    {i \in 1..Len(ntf) : /\ ntf[i].status = "pending"
                         /\ ntf[i].remind_at <= now
                         /\ ntf[i].event_id \in 1..Len(tbl)}

NotificationTask(ntf, tbl, i) ==
    [id |-> i, event_id |-> ntf[i].event_id, token |-> tbl[ntf[i].event_id].token,
     event_time |-> tbl[ntf[i].event_id].start_time,
     offset_minutes |-> ntf[i].offset_minutes, channel |-> ntf[i].channel,
     remind_at |-> ntf[i].remind_at, attempts |-> ntf[i].attempts]

\* fault variant: the SELECT without its ORDER BY
fetch_due_notifications_unordered(ntf, tbl, now) ==
    LET due == DueIds(ntf, tbl, now)
        n == Cardinality(due)
    IN  {[k \in 1..n |-> NotificationTask(ntf, tbl, f[k])] :
            f \in {g \in [1..n -> due] : \A a, b \in 1..n : a # b => g[a] # g[b]}}

\* ORDER BY n.remind_at ASC: the order of rows with equal remind_at is the
\* server's choice
fetch_due_notifications(ntf, tbl, now) ==
    LET due == DueIds(ntf, tbl, now)
        n == Cardinality(due)
    IN  {[k \in 1..n |-> NotificationTask(ntf, tbl, f[k])] :
            f \in {g \in [1..n -> due] :
                     /\ \A a, b \in 1..n : a # b => g[a] # g[b]
                     /\ \A a, b \in 1..n :
                           a < b => ntf[g[a]].remind_at <= ntf[g[b]].remind_at}}

\* fault variant: the UPDATE without status=%s
mark_notification_sent_keeps_status(ntf, id, success, fail_reason) ==
    [ntf EXCEPT ![id] = [@ EXCEPT !.fail_reason = fail_reason, !.attempts = @ + 1]]

\* fault variant: status 'sent' whatever success is
mark_notification_sent_as_sent(ntf, id, success, fail_reason) ==
    [ntf EXCEPT ![id] =
        [@ EXCEPT !.status = "sent", !.sent_at = "NOW()",
                  !.fail_reason = fail_reason, !.attempts = @ + 1]]

\* fault variant: only a success is written, a failure leaves the row as it is
mark_notification_sent_success_only(ntf, id, success, fail_reason) ==
    IF success
    THEN [ntf EXCEPT ![id] =
            [@ EXCEPT !.status = "sent", !.sent_at = "NOW()",
                      !.fail_reason = fail_reason, !.attempts = @ + 1]]
    ELSE ntf

\* fault variant: attempts is left as it is
mark_notification_sent_no_increment(ntf, id, success, fail_reason) ==
    [ntf EXCEPT ![id] =
        [@ EXCEPT !.status = IF success THEN "sent" ELSE "failed",
                  !.sent_at = IF success THEN "NOW()" ELSE @,
                  !.fail_reason = fail_reason]]

\* fault variant: sent_at=NOW() whatever the status
mark_notification_sent_stamps_all(ntf, id, success, fail_reason) ==
    [ntf EXCEPT ![id] =
        [@ EXCEPT !.status = IF success THEN "sent" ELSE "failed",
                  !.sent_at = "NOW()",
                  !.fail_reason = fail_reason, !.attempts = @ + 1]]

\* UPDATE alpha_notifications SET status, sent_at, fail_reason, attempts WHERE id
\* (sent_at is never read back: the model keeps whether it is NULL or a NOW())
mark_notification_sent(ntf, id, success, fail_reason) ==
    LET status == IF success THEN "sent" ELSE "failed"
    IN  [ntf EXCEPT ![id] =
            [@ EXCEPT !.status = status,
                      !.sent_at = IF status = "sent" THEN "NOW()" ELSE @,
                      !.fail_reason = fail_reason,
                      !.attempts = @ + 1]]

\* fault variant: the attempt is not logged
log_notification_attempt_nothing(lg, id, attempt_no, endpoint) == lg

\* INSERT INTO alpha_notification_logs (...)
log_notification_attempt(lg, id, attempt_no, endpoint) ==
    Append(lg, [notification_id |-> id, attempt_no |-> attempt_no, endpoint |-> endpoint])

----------------------------------------------------------------------------
(* notifier/spug.py *)

\* what one HTTP request gives: a status code, or 0 for requests.RequestException
Statuses == {200, 503, 0}

Configs == {"xsend", "template", "none"}

\* _post followed by the status check of _xsend / _template_send
TryFails(status) == status = 0 \/ status >= HttpErrorFloor

\* fault variant: no retry, the first try decides
retry_call_once(resps, attempt) ==
    [success |-> ~TryFails(resps[attempt]), tries |-> attempt, status |-> resps[attempt]]

\* tenacity: stop_after_attempt(3), retry_if_exception_type(SpugError), reraise
RECURSIVE retry_call(_, _)
retry_call(resps, attempt) ==
    IF ~TryFails(resps[attempt])
    THEN [success |-> TRUE, tries |-> attempt, status |-> resps[attempt]]
    ELSE IF attempt >= RetryAttempts
    THEN [success |-> FALSE, tries |-> attempt, status |-> resps[attempt]]
    ELSE retry_call(resps, attempt + 1)

\* SpugNotifier.send: the NotificationResult, or the SpugError it raises
send(config, resps) ==
    IF config = "xsend"
    THEN LET r == retry_call(resps, 1)
         IN  [success |-> r.success, tries |-> r.tries,
              endpoint |-> IF r.success THEN "/xsend" ELSE "/error",
              reason |-> IF r.success THEN ""
                         ELSE IF r.status = 0 THEN "request exception"
                         ELSE "xsend failed"]
    ELSE IF config = "template"
    THEN LET r == retry_call(resps, 1)
         IN  [success |-> r.success, tries |-> r.tries,
              endpoint |-> IF r.success THEN "/send" ELSE "/error",
              reason |-> IF r.success THEN ""
                         ELSE IF r.status = 0 THEN "request exception"
                         ELSE "template send failed"]
    ELSE [success |-> FALSE, tries |-> 0, endpoint |-> "/error",
          reason |-> "Spug configuration incomplete"]

\* fault variant: the primary channel whatever the mode
send_channel_primary(channel, quiet_channel, quiet_mode) == channel

\* the channel send chooses; quiet_channel is None ("absent"), "" or a name
send_channel(channel, quiet_channel, quiet_mode) ==
    IF quiet_mode /\ Truthy(quiet_channel) THEN quiet_channel ELSE channel

\* the payload of a request of _xsend (title, content, channel) or of
\* _template_send (targets, title, content: no channel)
Payload(config, channel, quiet_mode) ==
    [endpoint |-> IF config = "xsend" THEN "/xsend" ELSE "/send",
     channel |-> IF config = "xsend" THEN channel ELSE "absent",
     quiet_line |-> quiet_mode]

\* the requests one call of send makes: one per try, all with the same
\* payload; none with an incomplete configuration
send_requests(config, channel, quiet_channel, quiet_mode, resps) ==
    IF config = "none" THEN <<>>
    ELSE [k \in 1..retry_call(resps, 1).tries |->
             Payload(config, send_channel(channel, quiet_channel, quiet_mode), quiet_mode)]

----------------------------------------------------------------------------
(* collector/alpha_watch.py *)

\* fault variant: start_time resolved, every event kept
normalize_keep_all(batch, now) ==
    [k \in 1..Len(batch) |->
        [batch[k] EXCEPT !.start_time = parse_event_time(batch[k].raw_time, now)]]

\* steps 3 and 4 of a tick: resolve start_time, keep today's events
normalize(batch, now) ==
    LET parsed == [k \in 1..Len(batch) |->
                     [batch[k] EXCEPT !.start_time = parse_event_time(batch[k].raw_time, now)]]
        IsToday(e) == /\ e.start_time # NoTime
                      /\ Day(e.start_time) = Day(now)
                      /\ PyOr(PyOr(e.details.date, e.details.Date), DateStr(Day(now)))
                            = DateStr(Day(now))
    IN  SelectSeq(parsed, IsToday)

\* fault variant: the except branch of fetch_events without its return (the
\* tick goes on with the events it has, none when the fetch raised)
run_once_ignoring_failure(fetched, batch, now, tbl) ==
    LET up == upsert_events(normalize(batch, now), now, tbl)
    IN  [events |-> up.events, raised |-> TRUE, found |-> up.found,
         error |-> IF up.raised THEN "ProgrammingError" ELSE "TypeError"]

\* run_once on the tables: the call of ensure_notifications passes the
\* keyword reminder_offsets, which the method does not take, so every tick
\* whose fetch succeeded ends in an exception once upsert_events is through
\* (or in upsert_events itself, on a row that exists)
run_once(fetched, batch, now, tbl) ==
    IF ~fetched
    THEN [events |-> tbl, raised |-> FALSE, error |-> "collector.failed", found |-> 0]
    ELSE LET up == upsert_events(normalize(batch, now), now, tbl)
         IN  [events |-> up.events, raised |-> TRUE, found |-> up.found,
              error |-> IF up.raised THEN "ProgrammingError" ELSE "TypeError"]

----------------------------------------------------------------------------
(* History kept for the properties *)

\* sends: calls of notifier.send for the row; at: `now` of the tick that took it
NoHist == [sends |-> 0, at |-> 0]

Last(what, id) == [what |-> what, id |-> id]

NoLast == Last("", 0)

Extend(h, n) == h \o [k \in 1..(n - Len(h)) |-> NoHist]

NoRes == [success |-> FALSE, tries |-> 0, endpoint |-> "", reason |-> ""]

----------------------------------------------------------------------------
(* The state machine *)

Init ==
    /\ clock = 9 * 60 + 50
    /\ advances = 0
    /\ events = <<>>
    /\ notifs = <<>>
    /\ logs = <<>>
    /\ pc = "idle"
    /\ dnow = 0
    /\ tasks = <<>>
    /\ res = NoRes
    /\ hist = <<>>
    /\ cfg = "none"
    /\ dead = {}
    /\ last = NoLast
    /\ arg = <<>>
    /\ ret = <<>>
    /\ state = {}
    /\ marked = {}
    /\ db = <<>>

\* time passes between two ticks
Advance ==
    /\ pc = "idle"
    /\ advances < MaxAdvances
    /\ clock' = clock + 30
    /\ advances' = advances + 1
    /\ last' = NoLast
    /\ UNCHANGED <<aux, arg, ret, events, notifs, logs, pc, dnow, tasks, res, hist, cfg, dead>>

\* alpha_watch.run_once
RunOnce ==
    /\ pc = "idle"
    /\ "watch" \notin dead
    /\ \E fetched \in BOOLEAN, batch \in Batches :
          \E r \in {run_once(fetched, batch, clock, events)} :
              /\ fetched \/ batch = <<>>
              /\ Len(r.events) <= MaxEvents
              /\ events' = r.events
              /\ dead' = IF r.raised THEN dead \cup {"watch"} ELSE dead
              /\ last' = IF ~fetched THEN Last("fetch_failed", 0)
                          ELSE IF r.error = "ProgrammingError" THEN Last("reobserved", r.found)
                          ELSE NoLast
    /\ UNCHANGED <<aux, arg, ret, clock, advances, notifs, logs, pc, dnow, tasks, res, hist, cfg>>

\* steps 3 to 5 of a tick on the tables, with ensure_notifications called by
\* its signature (event_ids, events, default_channel, now)
ingest_once(batch, channel, now, tbl, ntf) ==
    LET kept == normalize(batch, now)
        up == upsert_events(kept, now, tbl)
    IN  [events |-> up.events,
         notifs |-> IF up.raised THEN ntf
                    ELSE ensure_notifications(up.ids, kept, channel, now, ntf),
         raised |-> up.raised, found |-> up.found]

\* steps 1 to 5 of a tick with ensure_notifications called by its signature
\* (event_ids, events, default_channel, now)
IngestOnce ==
    /\ pc = "idle"
    /\ "ingest" \notin dead
    /\ \E batch \in Batches, channel \in Channels :
          \E up \in {ingest_once(batch, channel, clock, events, notifs)} :
              /\ Len(up.events) <= MaxEvents
              /\ events' = up.events
              /\ notifs' = up.notifs
              /\ hist' = Extend(hist, Len(up.notifs))
              /\ dead' = IF up.raised THEN dead \cup {"ingest"} ELSE dead
              /\ last' = IF up.raised THEN Last("reobserved", up.found) ELSE NoLast
    /\ UNCHANGED <<aux, arg, ret, clock, advances, logs, pc, dnow, tasks, res, cfg>>

----------------------------------------------------------------------------
(* notifier/dispatch.py *)

\* the event time dispatch_once derives for a task
derived_event_time(task) ==
    IF task.event_time = NoTime
    THEN task.remind_at + task.offset_minutes
    ELSE task.event_time

\* fault variant: no future check
event_time_never_in_future(task, now) == FALSE

\* the future check of dispatch_once
event_time_in_future(task, now) ==
    derived_event_time(task) # NoTime /\ derived_event_time(task) > now

FutureRes ==
    [success |-> FALSE, tries |-> 0, endpoint |-> "/error", reason |-> "event_time_in_future"]

\* dispatch_once(settings, notifier, repository) up to the loop: now,
\* fetch_due_notifications
DispatchFetch ==
    /\ pc = "idle"
    /\ "dispatch" \notin dead
    /\ tasks' \in fetch_due_notifications(notifs, events, clock)
    /\ cfg' \in Configs
    /\ dnow' = clock
    /\ pc' = "loop"
    /\ last' = NoLast
    /\ UNCHANGED <<aux, arg, ret, clock, advances, events, notifs, logs, res, hist, dead>>

\* what the endpoint answers to the HTTP tries of one send (none is made
\* with an incomplete configuration)
Responses(config) ==
    IF config = "none" THEN {[k \in 1..RetryAttempts |-> 0]}
    ELSE [1..RetryAttempts -> Statuses]

\* one pass of the loop up to _log_and_mark: the future check, else notifier.send
DispatchSend ==
    /\ pc = "loop"
    /\ tasks # <<>>
    /\ LET task == Head(tasks)
       IN  IF event_time_in_future(task, dnow)
           THEN /\ res' = FutureRes
                /\ hist' = [hist EXCEPT ![task.id].at = dnow]
           ELSE \E resps \in Responses(cfg) :
                   LET r == send(cfg, resps)
                   IN  /\ res' = r
                       /\ hist' = [hist EXCEPT ![task.id].sends = @ + 1, ![task.id].at = dnow]
    /\ pc' = "log"
    /\ last' = NoLast
    /\ UNCHANGED <<aux, arg, ret, clock, advances, events, notifs, logs, dnow, tasks, cfg, dead>>

\* a store error: the exception leaves dispatch_once and main
StoreError ==
    /\ dead' = dead \cup {"dispatch"}
    /\ pc' = "idle"
    /\ tasks' = <<>>
    /\ res' = NoRes
    /\ cfg' = "none"
    /\ dnow' = 0

\* _log_and_mark, first statement: log_notification_attempt
DispatchLog ==
    /\ pc = "log"
    /\ \/ /\ logs' = log_notification_attempt(logs, Head(tasks).id,
                         Head(tasks).attempts + 1, res.endpoint)
          /\ pc' = "mark"
          /\ UNCHANGED <<tasks, res, cfg, dead, dnow>>
       \/ /\ StoreError
          /\ UNCHANGED logs
    /\ last' = NoLast
    /\ UNCHANGED <<aux, arg, ret, clock, advances, events, notifs, hist>>

\* _log_and_mark, second statement: mark_notification_sent
DispatchMark ==
    /\ pc = "mark"
    /\ \/ /\ notifs' = mark_notification_sent(notifs, Head(tasks).id, res.success,
                           res.reason)
          /\ tasks' = Tail(tasks)
          /\ res' = NoRes
          /\ pc' = "loop"
          /\ UNCHANGED <<cfg, dead, dnow>>
       \/ /\ StoreError
          /\ UNCHANGED notifs
    /\ last' = NoLast
    /\ UNCHANGED <<aux, arg, ret, clock, advances, events, logs, hist>>

\* dispatch_once returns
DispatchReturn ==
    /\ pc = "loop"
    /\ tasks = <<>>
    /\ pc' = "idle"
    /\ cfg' = "none"
    /\ dnow' = 0
    /\ last' = NoLast
    /\ UNCHANGED <<aux, arg, ret, clock, advances, events, notifs, logs, tasks, res, hist, dead>>

Next ==
    \/ Advance
    \/ RunOnce
    \/ IngestOnce
    \/ DispatchFetch
    \/ DispatchSend
    \/ DispatchLog
    \/ DispatchMark
    \/ DispatchReturn

Spec == Init /\ [][Next]_vars

----------------------------------------------------------------------------
(* The repository applied directly *)

\* the Event of a stored row, as a caller holding the row passes it
EventOfRow(row) ==
    [token |-> row.token, raw_time |-> row.raw_time, details |-> row.details,
     start_time |-> row.start_time, section |-> "today"]

\* ensure_notifications called again for a stored event and its id, after a
\* call that made the row of its (event_id, offset_minutes, remind_at)
ReEnsure ==
    /\ pc = "idle"
    /\ \E eid \in 1..Len(events), channel \in Channels :
          LET event == EventOfRow(events[eid])
              ntf == ensure_notifications(<<eid>>, <<event>>, channel, clock, notifs)
              key == <<eid, ReminderOffset, event.start_time - ReminderOffset>>
              reached == ~(clock - ReminderOffset >= event.start_time)
          IN  /\ \E i \in 1..Len(notifs) : NotificationKey(notifs[i]) = key
              /\ notifs' = ntf
              /\ hist' = Extend(hist, Len(ntf))
              /\ last' = IF reached THEN Last("insert_ignored", eid) ELSE NoLast
    /\ UNCHANGED <<aux, arg, ret, clock, advances, events, logs, pc, dnow, tasks, res, cfg, dead>>

NextRepo ==
    \/ Advance
    \/ IngestOnce
    \/ ReEnsure
    \/ DispatchFetch
    \/ DispatchSend
    \/ DispatchLog
    \/ DispatchMark
    \/ DispatchReturn

SpecRepo == Init /\ [][NextRepo]_vars

----------------------------------------------------------------------------
(* collector/parser.py: the JSON extractor *)

\* JSON values: a string, an object (its keys in order), a list
Str(s) == [t |-> "str", s |-> s, kv |-> <<>>, items |-> <<>>]
Obj(kv) == [t |-> "dict", s |-> "", kv |-> kv, items |-> <<>>]
Lst(items) == [t |-> "list", s |-> "", kv |-> <<>>, items |-> items]
KV(k, v) == [k |-> k, v |-> v]

\* TOKEN_KEYS and TIME_KEYS, the keys of the model among them
TOKEN_KEYS == <<"token", "coin", "project", "name", "symbol", "ticker">>
TIME_KEYS == <<"time", "start_time", "startTime", "listing_time", "airdrop_time", "airdropTime">>

SeqRange(s) == {s[i] : i \in 1..Len(s)}

\* f"{current_key}[{index}]" if current_key else str(index), index from 0
IndexKey(current_key, index) ==
    IF current_key = <<>> THEN <<"0", "1", "2">>[index] ELSE <<"[0]", "[1]", "[2]">>[index]

\* isinstance(value, list) and value and all(isinstance(item, dict) ...)
IsObjectList(value) ==
    /\ value.t = "list"
    /\ value.items # <<>>
    /\ \A i \in 1..Len(value.items) : value.items[i].t = "dict"

\* _iter_candidate_lists: the (key path, list) pairs in the order yielded; a
\* key path is the sequence of the parts that the code joins with "."
RECURSIVE _iter_candidate_lists(_, _)
_iter_candidate_lists(payload, current_key) ==
    LET RECURSIVE over_dict(_)
        over_dict(kv) ==
            IF kv = <<>> THEN <<>>
            ELSE LET nested_key == Append(current_key, Head(kv).k)
                     value == Head(kv).v
                 IN  (IF IsObjectList(value)
                      THEN <<[section |-> nested_key, items |-> value.items]>>
                      ELSE _iter_candidate_lists(value, nested_key))
                     \o over_dict(Tail(kv))
        RECURSIVE over_list(_, _)
        over_list(items, index) ==
            IF index > Len(items) THEN <<>>
            ELSE _iter_candidate_lists(items[index],
                     Append(current_key, IndexKey(current_key, index)))
                 \o over_list(items, index + 1)
    IN  IF payload.t = "dict" THEN over_dict(payload.kv)
        ELSE IF payload.t = "list" THEN over_list(payload.items, 1)
        ELSE <<>>

\* _normalize_section on a key path: the keys of the model that hold a
\* keyword of SECTION_KEYWORDS are "today" and "upcoming"; today is tried first
_normalize_section(path) ==
    IF "today" \in SeqRange(path) THEN "today"
    ELSE IF "upcoming" \in SeqRange(path) THEN "upcoming"
    ELSE "unknown"

\* _select_first: the value of the first key of keys that the object holds
\* with a truthy value, or "absent" (None)
RECURSIVE _select_first(_, _)
_select_first(data, keys) ==
    IF keys = <<>> THEN "absent"
    ELSE LET hits == {i \in 1..Len(data.kv) :
                         /\ data.kv[i].k = Head(keys)
                         /\ data.kv[i].v.t = "str"
                         /\ data.kv[i].v.s # ""}
         IN  IF hits # {} THEN data.kv[CHOOSE i \in hits : TRUE].v.s
             ELSE _select_first(data, Tail(keys))

\* the loop of _extract_events_from_json over the items of one candidate list
RECURSIVE items_loop(_, _)
items_loop(items, section_label) ==
    IF items = <<>> THEN <<>>
    ELSE LET item == Head(items)
             token == _select_first(item, TOKEN_KEYS)
             time_value == _select_first(item, TIME_KEYS)
         IN  (IF item.t # "dict" \/ token = "absent" THEN <<>>
              ELSE <<[token |-> token, section |-> section_label,
                      raw_time |-> IF time_value = "absent" THEN "" ELSE time_value,
                      start_time |-> NoTime, source |-> "json",
                      details |-> SelectSeq(item.kv, LAMBDA e :
                          e.k \notin SeqRange(TOKEN_KEYS) \cup SeqRange(TIME_KEYS))]>>)
             \o items_loop(Tail(items), section_label)

RECURSIVE candidates_loop(_)
candidates_loop(candidates) ==
    IF candidates = <<>> THEN <<>>
    ELSE items_loop(Head(candidates).items, _normalize_section(Head(candidates).section))
         \o candidates_loop(Tail(candidates))

\* _extract_events_from_json
_extract_events_from_json(payload) ==
    candidates_loop(_iter_candidate_lists(payload, <<>>))

\* objects of a payload: an item with a token and a time, one with a token
\* only, one without a token, one with an empty token
Item(token, time) == Obj(<<KV("token", Str(token)), KV("time", Str(time))>>)

\* captured payloads: a list at the top, under a key path, beside other
\* values, empty, of strings, of objects and strings, and lists inside the
\* objects of a list of objects
JsonPayloads ==
    {Obj(<<KV("today", Lst(<<Item("OMEGA", "10:20")>>))>>),
     Obj(<<KV("data", Obj(<<KV("upcoming",
              Lst(<<Item("ALPHA", "11:00"), Obj(<<KV("name", Str("BETA"))>>)>>))>>))>>),
     Obj(<<KV("today", Lst(<<Item("OMEGA", "10:20"), Item("", "10:30"),
                              Obj(<<KV("amount", Str("5000"))>>)>>)),
           KV("upcoming", Lst(<<Item("ALPHA", "TBA")>>))>>),
     Obj(<<KV("today", Lst(<<>>)), KV("code", Str("0"))>>),
     Obj(<<KV("today", Lst(<<Str("OMEGA"), Str("ALPHA")>>))>>),
     Obj(<<KV("data", Lst(<<Str("x"),
              Obj(<<KV("today", Lst(<<Item("OMEGA", "10:20")>>))>>)>>))>>),
     Obj(<<KV("data", Lst(<<Obj(<<KV("today", Lst(<<Item("OMEGA", "10:20")>>))>>),
                             Obj(<<KV("upcoming", Lst(<<Item("ALPHA", "11:00")>>))>>)>>))>>),
     Obj(<<KV("today", Lst(<<Obj(<<KV("token", Str("OMEGA")), KV("time", Str("10:20")),
                                   KV("related", Lst(<<Item("BETA", "10:50")>>))>>)>>))>>)}

----------------------------------------------------------------------------
(* collector/parser.py: the HTML extractor *)

\* the nodes of a document in document order: headings, and the containers
\* (a table with its rows, a div with its cards) that follow them
Heading(text) == [tag |-> "h2", text |-> text, rows |-> <<>>]
Container(tag, rows) == [tag |-> tag, text |-> "", rows |-> rows]
Row(token, time) == [token |-> token, time |-> time]

\* header.find_next(tag): the first node after the header with that tag,
\* wherever it is in the rest of the document; 0 for None
find_next(nodes, i, tag) ==
    LET later == {j \in (i + 1)..Len(nodes) : nodes[j].tag = tag}
    IN  IF later = {} THEN 0 ELSE CHOOSE j \in later : \A k \in later : j <= k

\* _parse_table_section / _parse_card_section on the rows or cards of a
\* container: one event per row whose (section, token|raw_time) was not seen;
\* the result is the events and the set seen_rows
RECURSIVE _parse_section(_, _, _, _)
_parse_section(rows, section_label, seen_rows, evs) ==
    IF rows = <<>> THEN [events |-> evs, seen_rows |-> seen_rows]
    ELSE LET key == <<section_label, Head(rows).token, Head(rows).time>>
         IN  IF key \in seen_rows
             THEN _parse_section(Tail(rows), section_label, seen_rows, evs)
             ELSE _parse_section(Tail(rows), section_label, seen_rows \cup {key},
                      Append(evs, [token |-> Head(rows).token, section |-> section_label,
                                   raw_time |-> Head(rows).time, start_time |-> NoTime,
                                   source |-> "dom"]))

\* the loop of parse_html_document over soup.find_all(["h1", "h2", "h3", "h4"])
RECURSIVE headers_loop(_, _, _, _)
headers_loop(nodes, i, seen_rows, evs) ==
    IF i > Len(nodes) THEN evs
    ELSE IF nodes[i].tag # "h2" THEN headers_loop(nodes, i + 1, seen_rows, evs)
    ELSE LET section_label == _normalize_section(<<nodes[i].text>>)
             table == find_next(nodes, i, "table")
             card_container == find_next(nodes, i, "div")
             found == IF table # 0 THEN table ELSE card_container
         IN  IF found = 0 THEN headers_loop(nodes, i + 1, seen_rows, evs)
             ELSE LET r == _parse_section(nodes[found].rows, section_label, seen_rows, evs)
                  IN  headers_loop(nodes, i + 1, r.seen_rows, r.events)

\* parse_html_document
parse_html_document(nodes) == headers_loop(nodes, 1, {}, <<>>)

\* documents that are one or two section headings, each followed by its own
\* table or div; the rows of the first container are DELTA's, those of the
\* second SIGMA's
HtmlDocuments ==
    {<<Heading(s1), Container(t1, <<Row("DELTA", "10:20")>>)>> :
        s1 \in {"today", "upcoming"}, t1 \in {"table", "div"}}
    \cup {<<Heading(s1), Container(t1, <<Row("DELTA", "10:20")>>),
            Heading(s2), Container(t2, <<Row("SIGMA", "TBA"), Row("SIGMA", "TBA")>>)>> :
             s1 \in {"today", "upcoming"}, t1 \in {"table", "div"},
             s2 \in {"today", "upcoming"}, t2 \in {"table", "div"}}

----------------------------------------------------------------------------
(* collector/collector.py: the functions of the extractor, applied on their own *)

\* Events as the parsers build them: source "json" (parse_json_payloads) or
\* "dom" (parse_html_document); details hold what the row or item carried
Extracted(section, token, raw, source, amount) ==
    [section |-> section, token |-> token, raw_time |-> raw, source |-> source,
     details |-> [amount |-> amount]]

ExtractedEvents ==
    {Extracted(section, "OMEGA", "10:20", source, amount) :
        section \in {"today", "upcoming"},
        source \in {"json", "dom"}, amount \in {"absent", "5000"}}

ExtractedLists == UNION {[1..k -> ExtractedEvents] : k \in 0..MaxList}

\* key = (event.section, f"{event.token}|{event.raw_time}"); no token or raw
\* time of the model holds a "|", so the joined string is the pair
DedupeKey(event) == <<event.section, event.token, event.raw_time>>

\* the loop of _deduplicate; unique is the dict, its values in the order in
\* which their keys were inserted
RECURSIVE dedupe_loop(_, _)
dedupe_loop(evs, unique) ==
    IF evs = <<>> THEN unique
    ELSE LET event == Head(evs)
             hits == {i \in 1..Len(unique) : DedupeKey(unique[i]) = DedupeKey(event)}
         IN  IF hits = {}
             THEN dedupe_loop(Tail(evs), Append(unique, event))
             ELSE LET i == CHOOSE i \in hits : TRUE
                  IN  IF unique[i].source = "dom"
                      THEN dedupe_loop(Tail(evs), [unique EXCEPT ![i] = event])
                      ELSE dedupe_loop(Tail(evs), unique)

\* fault variant: no dedupe, the list as it came
_deduplicate_nothing(evs) == evs

_deduplicate(evs) == dedupe_loop(evs, <<>>)

\* details.date / details.Date as upsert_events can find them: missing,
\* today's date, another date, the empty string
DetailsInputs ==
    {NoDate,
     [date |-> "2024-05-26", Date |-> "absent"],
     [date |-> "2024-05-27", Date |-> "absent"],
     [date |-> "", Date |-> "absent"],
     [date |-> "absent", Date |-> "2024-05-27"]}

\* events handed to upsert_events at now, start_time resolved (step 3)
UpsertInputs(now) ==
    {[Ev("OMEGA", raw, details) EXCEPT !.start_time = parse_event_time(raw, now)] :
        raw \in {HHMM(10, 20), IsoT(0, 11, 0), TBA},
        details \in DetailsInputs}
    \cup {[Ev("ALPHA", HHMM(11, 0), details) EXCEPT !.start_time = 11 * 60] :
             details \in {NoDate, [date |-> "2024-05-27", Date |-> "absent"]}}

UpsertLists(now) == UNION {[1..k -> UpsertInputs(now)] : k \in 0..MaxBatch}

\* alpha_events before the call: empty, or the row of OMEGA at 10:20
StoredTables ==
    {<<>>,
     <<EventRow([Ev("OMEGA", HHMM(10, 20), NoDate) EXCEPT !.start_time = 10 * 60 + 20])>>}

\* raw times and reference instants given to parse_event_time
RawTimeInputs ==
    {HHMM(h, m) : h \in {0, 10, 23}, m \in {0, 15, 59}} \cup {IsoT(0, 11, 0), TBA}

\* strings with the pattern \d{1,2}:\d{2} that name no clock time:
\* "25:00", "12:75", "24:00", "99:99"
MalformedTimes ==
    {[kind |-> "digits", d |-> 0, h |-> hm[1], m |-> hm[2]] :
        hm \in {<<25, 0>>, <<12, 75>>, <<24, 0>>, <<99, 99>>}}

ReferenceInputs ==
    {d * MinutesPerDay + h * 60 + m : d \in {0, 1}, h \in {0, 1, 11, 23}, m \in {0, 15, 16, 30}}

\* quiet windows as parse_quiet_hours gives them: none, 22:00-07:30,
\* 09:00-17:00, 08:00-08:00
QuietWindows ==
    {NoWindow, <<22 * 60, 7 * 60 + 30>>, <<9 * 60, 17 * 60>>, <<8 * 60, 8 * 60>>}

\* instants at which a tick asks in_quiet_hours
QuietNows ==
    {d * MinutesPerDay + t : d \in {0, 1},
        t \in {2 * 60, 2 * 60 + 15, 7 * 60 + 29, 7 * 60 + 30, 8 * 60, 9 * 60, 12 * 60,
               16 * 60 + 59, 17 * 60, 21 * 60 + 59, 22 * 60, 23 * 60}}

\* events a tick can fetch: with a time of today, without a time, with a
\* clock time that rolls over (08:00 and 00:15 are more than an hour before
\* either now), with an ISO time of the next day
TickInputs ==
    {Ev("OMEGA", HHMM(10, 20), NoDate),
     Ev("ALPHA", HHMM(8, 0), NoDate),
     Ev("DELTA", HHMM(0, 15), NoDate),
     Ev("BETA", TBA, NoDate),
     Ev("BETA", IsoT(0, 11, 0), NoDate),
     Ev("GAMMA", IsoT(1, 11, 0), NoDate)}

TickBatches == UNION {[1..k -> TickInputs] : k \in 0..MaxBatch}

TickNows == {9 * 60 + 50, 23 * 60 + 30}

\* str.strip() on the date values of the model
Strip(v) ==
    IF v = " 2024-05-26 " THEN "2024-05-26"
    ELSE IF v = "   " THEN ""
    ELSE v

\* details of a parsed event: date and Date (missing, empty, blank, today's
\* date, padded or not, another date) and the key "tool"
Details(date, Date, tool) == [date |-> date, Date |-> Date, tool |-> tool]

\* events as _deduplicate hands them on: section from the heading or the
\* key path (_normalize_section)
Parsed(section, details) ==
    [section |-> section, token |-> "OMEGA", raw_time |-> "10:20", source |-> "dom",
     details |-> details]

ParsedEvents ==
    {Parsed(section, Details("absent", "absent", "absent")) :
        section \in {"today", "upcoming", "unknown"}}
    \cup {Parsed(section, Details(date, "absent", "absent")) :
             section \in {"today", "upcoming"}, date \in {"2024-05-26", "2024-05-27"}}
    \cup {Parsed("today", details) :
             details \in {Details("", "absent", "absent"),
                          Details("   ", "absent", "absent"),
                          Details("absent", "2024-05-27", "absent"),
                          Details("", "2024-05-27", "absent")}}
    \cup {Parsed("upcoming", details) :
             details \in {Details(" 2024-05-26 ", "absent", "absent"),
                          Details("absent", "2024-05-26", "absent")}}
    \cup {Parsed("today", Details(date, "absent", "1")) : date \in {"absent", "2024-05-26"}}

ParsedLists == UNION {[1..k -> ParsedEvents] : k \in 0..MaxBatch}

\* one of the three tests of _is_tool_card: the key "tool" in details (the
\* tokens and lines of the model hold none of TOOL_SUBSTRINGS)
_is_tool_card(event) == event.details.tool # "absent"

\* the first block of the loop of _enrich_and_filter: date into details,
\* section from the date
enrich(event, now) ==
    LET date_value == PyOr(event.details.date, event.details.Date)
        date_str == Strip(date_value)
    IN  IF Truthy(date_value) /\ date_str # ""
        THEN [event EXCEPT !.details.date = date_str,
                           !.section = IF date_str = DateStr(Day(now))
                                       THEN "today" ELSE "upcoming"]
        ELSE event

\* fault variant: the section of the heading kept, whatever the date
_enrich_and_filter_by_heading(evs, now) ==
    SelectSeq(evs, LAMBDA e : ~_is_tool_card(e) /\ e.section = "today")

_enrich_and_filter(evs, now) ==
    SelectSeq([k \in 1..Len(evs) |-> enrich(evs[k], now)],
              LAMBDA e : ~_is_tool_card(e) /\ e.section = "today")

\* SPUG_QUIET_CHANNEL: not set, empty, or a channel
QuietChannels == {"absent", "", "sms"}

\* quiet windows and instants of the ticks that send
SendWindows == {NoWindow, <<22 * 60, 7 * 60 + 30>>}

SendNows == {2 * 60 + 15, 7 * 60 + 30, 12 * 60, 23 * 60}

\* events with a start_time, two of them at the same instant
DueEvents ==
    {[Ev("OMEGA", HHMM(10, 20), NoDate) EXCEPT !.start_time = 10 * 60 + 20],
     [Ev("ALPHA", HHMM(10, 20), NoDate) EXCEPT !.start_time = 10 * 60 + 20],
     [Ev("GAMMA", HHMM(11, 0), NoDate) EXCEPT !.start_time = 11 * 60]}

\* the orders they can have been observed in
DueEventLists ==
    {evs \in UNION {[1..n -> DueEvents] : n \in 1..Cardinality(DueEvents)} :
        \A i, j \in 1..Len(evs) : i # j => evs[i] # evs[j]}

\* the tables after those events were stored and their reminders materialized
DueStore(evs) ==
    [tbl |-> [k \in 1..Len(evs) |-> EventRow(evs[k])],
     ntf |-> ensure_notifications([k \in 1..Len(evs) |-> k], evs, "voice",
                                  9 * 60 + 50, <<>>)]

\* the instants a tick reads as its now, around half an hour past 10:20
EnsureNows == {10 * 60 + 49, 10 * 60 + 50, 10 * 60 + 51}

\* the minutes that pass between the tick's now and the call (the fetch)
FetchMinutes == {0, 1}

\* events to materialize: with a start_time, and one without
EnsureLists ==
    {evs \in UNION {[1..n -> DueEvents \cup {Ev("BETA", TBA, NoDate)}] : n \in 1..2} :
        \A i, j \in 1..Len(evs) : i # j => evs[i] # evs[j]}

\* the calls that are made: a function and its arguments
FnCalls ==
    {[fn |-> "_deduplicate", evs |-> evs] : evs \in ExtractedLists}
    \cup {[fn |-> "parse_html_document", nodes |-> nodes] : nodes \in HtmlDocuments}
    \cup {[fn |-> "_extract_events_from_json", payload |-> payload] :
             payload \in JsonPayloads}
    \cup {[fn |-> "ensure_notifications", ids |-> [k \in 1..Len(evs) |-> k],
           evs |-> evs, channel |-> "voice", now |-> now, wall |-> now + d,
           ntf |-> IF present THEN DueStore(<<evs[1]>>).ntf ELSE <<>>] :
             evs \in EnsureLists, now \in EnsureNows, d \in FetchMinutes,
             present \in BOOLEAN}
    \cup {[fn |-> "fetch_due_notifications", now |-> now,
           tbl |-> DueStore(evs).tbl, ntf |-> DueStore(evs).ntf] :
             evs \in DueEventLists, now \in {10 * 60, 10 * 60 + 30}}
    \cup {[fn |-> "upsert_events", evs |-> evs, now |-> 9 * 60 + 50, tbl |-> tbl] :
             evs \in UpsertLists(9 * 60 + 50), tbl \in StoredTables}
    \cup {[fn |-> "parse_event_time", raw |-> raw, reference |-> reference] :
             raw \in RawTimeInputs \cup MalformedTimes, reference \in ReferenceInputs}
    \cup {[fn |-> fn, batch |-> batch, now |-> now, tbl |-> tbl, ntf |-> <<>>] :
             fn \in {"run_once", "ingest_once"}, batch \in TickBatches,
             now \in TickNows, tbl \in StoredTables}
    \cup {[fn |-> "_enrich_and_filter", evs |-> evs, now |-> 9 * 60 + 50] :
             evs \in ParsedLists}
    \cup {[fn |-> "send", now |-> now, quiet_hours |-> w, channel |-> channel,
           quiet_channel |-> qc, config |-> config, resps |-> resps] :
             now \in SendNows, w \in SendWindows, channel \in Channels,
             qc \in QuietChannels, config \in {"xsend", "template"},
             resps \in [1..RetryAttempts -> Statuses]}
    \cup {[fn |-> "send", now |-> now, quiet_hours |-> NoWindow, channel |-> channel,
           quiet_channel |-> "absent", config |-> "none", resps |-> resps] :
             now \in SendNows, channel \in Channels, resps \in Responses("none")}
    \cup {[fn |-> "in_quiet_hours", now |-> now, quiet_window |-> w] :
             now \in QuietNows, w \in QuietWindows}

\* a call is chosen; nothing was applied yet
InitFn ==
    /\ arg \in FnCalls
    /\ ret = <<>>
    /\ last = NoLast
    /\ clock = 9 * 60 + 50
    /\ advances = 0
    /\ events = <<>>
    /\ notifs = <<>>
    /\ logs = <<>>
    /\ pc = "idle"
    /\ dnow = 0
    /\ tasks = <<>>
    /\ res = NoRes
    /\ hist = <<>>
    /\ cfg = "none"
    /\ dead = {}
    /\ state = {}
    /\ marked = {}
    /\ db = <<>>

\* what a call leaves alone
FnFrame ==
    UNCHANGED <<clock, advances, events, notifs, logs, pc, dnow, tasks, res, hist,
                cfg, dead, arg, aux>>

\* _deduplicate applied to a list of events
Deduplicate ==
    /\ last = NoLast
    /\ arg.fn = "_deduplicate"
    /\ ret' = _deduplicate(arg.evs)
    /\ last' = Last("_deduplicate", 0)
    /\ FnFrame

\* upsert_events applied to a list of events and a table
UpsertEvents ==
    /\ last = NoLast
    /\ arg.fn = "upsert_events"
    /\ ret' = upsert_events(arg.evs, arg.now, arg.tbl)
    /\ last' = Last("upsert_events", 0)
    /\ FnFrame

\* parse_event_time applied to a raw time and a reference instant
ParseEventTime ==
    /\ last = NoLast
    /\ arg.fn = "parse_event_time"
    /\ ret' = parse_event_time(arg.raw, arg.reference)
    /\ last' = Last("parse_event_time", 0)
    /\ FnFrame

\* in_quiet_hours applied to an instant and a window
InQuietHours ==
    /\ last = NoLast
    /\ arg.fn = "in_quiet_hours"
    /\ ret' = in_quiet_hours(arg.now, arg.quiet_window)
    /\ last' = Last("in_quiet_hours", 0)
    /\ FnFrame

\* run_once past its fetch, applied to the events fetched and the tables;
\* it writes no notification row (the call of ensure_notifications raises)
RunOnceCall ==
    /\ last = NoLast
    /\ arg.fn = "run_once"
    /\ ret' = [events |-> run_once(TRUE, arg.batch, arg.now, arg.tbl).events,
               notifs |-> arg.ntf]
    /\ last' = Last("run_once", 0)
    /\ FnFrame

\* the same steps with ensure_notifications called by its signature
IngestOnceCall ==
    /\ last = NoLast
    /\ arg.fn = "ingest_once"
    /\ \E channel \in Channels :
          LET r == ingest_once(arg.batch, channel, arg.now, arg.tbl, arg.ntf)
          IN  ret' = [events |-> r.events, notifs |-> r.notifs]
    /\ last' = Last("ingest_once", 0)
    /\ FnFrame

\* _enrich_and_filter applied to a list of events
EnrichAndFilter ==
    /\ last = NoLast
    /\ arg.fn = "_enrich_and_filter"
    /\ ret' = _enrich_and_filter(arg.evs, arg.now)
    /\ last' = Last("_enrich_and_filter", 0)
    /\ FnFrame

\* the send of a tick: quiet_mode from in_quiet_hours(now, quiet_hours),
\* then notifier.send(reminder, quiet_mode=quiet_mode)
SendInTick ==
    /\ last = NoLast
    /\ arg.fn = "send"
    /\ LET quiet_mode == in_quiet_hours(arg.now, arg.quiet_hours)
       IN  ret' = [quiet_mode |-> quiet_mode,
                   requests |-> send_requests(arg.config, arg.channel, arg.quiet_channel,
                                              quiet_mode, arg.resps),
                   result |-> send(arg.config, arg.resps)]
    /\ last' = Last("send", 0)
    /\ FnFrame

\* fetch_due_notifications applied to the tables
FetchDue ==
    /\ last = NoLast
    /\ arg.fn = "fetch_due_notifications"
    /\ ret' \in fetch_due_notifications(arg.ntf, arg.tbl, arg.now)
    /\ last' = Last("fetch_due_notifications", 0)
    /\ FnFrame

\* ensure_notifications(event_ids, events, channel, now) applied to the
\* table; time.time() gives arg.wall, and now is not read
EnsureNotifications ==
    /\ last = NoLast
    /\ arg.fn = "ensure_notifications"
    /\ ret' = ensure_notifications(arg.ids, arg.evs, arg.channel, arg.wall, arg.ntf)
    /\ last' = Last("ensure_notifications", 0)
    /\ FnFrame

\* _extract_events_from_json applied to a captured payload
ExtractEventsFromJson ==
    /\ last = NoLast
    /\ arg.fn = "_extract_events_from_json"
    /\ ret' = _extract_events_from_json(arg.payload)
    /\ last' = Last("_extract_events_from_json", 0)
    /\ FnFrame

\* parse_html_document applied to a document
ParseHtmlDocument ==
    /\ last = NoLast
    /\ arg.fn = "parse_html_document"
    /\ ret' = parse_html_document(arg.nodes)
    /\ last' = Last("parse_html_document", 0)
    /\ FnFrame

NextFn ==
    \/ Deduplicate
    \/ ParseHtmlDocument
    \/ ExtractEventsFromJson
    \/ EnsureNotifications
    \/ FetchDue
    \/ SendInTick
    \/ EnrichAndFilter
    \/ RunOnceCall
    \/ IngestOnceCall
    \/ InQuietHours
    \/ ParseEventTime
    \/ UpsertEvents

SpecFn == InitFn /\ [][NextFn]_vars

----------------------------------------------------------------------------
(* collector/models.py, collector/state.py, collector/reminder.py:
   the reminder engine over its state store *)

NoOffset == NoTime

\* Events as the engine is handed them
Timed(section, token, raw, start_time, source) ==
    [section |-> section, token |-> token, raw_time |-> raw,
     start_time |-> start_time, source |-> source]

\* the part of a key that names the time: strftime("%Y-%m-%d %H:%M") of
\* start_time, or the raw text (or "unknown") of an event without one
TimePart(event) ==
    IF event.start_time # NoTime
    THEN [text |-> DateStr(Day(event.start_time)),
          h |-> (event.start_time % MinutesPerDay) \div 60,
          m |-> event.start_time % 60]
    ELSE [text |-> PyOr(event.raw_time, "unknown"), h |-> NoTime, m |-> NoTime]

\* Event.reminder_key: "section|token|time_part|offset"
reminder_key(event, offset_minutes) ==
    [section |-> event.section, token |-> event.token, time_part |-> TimePart(event),
     suffix |-> "offset", offset |-> offset_minutes]

\* Event.without_time_key: "section|token|raw_time or unknown|NEW"
without_time_key(event) ==
    [section |-> event.section, token |-> event.token,
     time_part |-> [text |-> PyOr(event.raw_time, "unknown"), h |-> NoTime, m |-> NoTime],
     suffix |-> "NEW", offset |-> NoOffset]

\* a store that has forgotten every key
was_notified_never(st, key) == FALSE

\* StateStore.was_notified: key in self._state
was_notified(st, key) == \E entry \in st : entry.key = key

\* StateStore.mark_notified: self._state[key] = now.isoformat(), then _persist
mark_notified(st, key, now) ==
    {entry \in st : entry.key # key} \cup {[key |-> key, at |-> now]}

\* StateStore.prune: keeps the entries not older than now - ttl
prune(st, now, ttl) == {entry \in st : entry.at >= now - ttl}

\* fault variant: every event time is within the window
is_within_window_always(event_time, now, ahead_minutes) == event_time # NoTime

\* timeutil.is_within_window
is_within_window(event_time, now, ahead_minutes) ==
    IF event_time = NoTime THEN FALSE
    ELSE IF event_time < now THEN FALSE
    ELSE event_time - now <= ahead_minutes

Reminder(event, offset_minutes, trigger_time, reason) ==
    [event |-> event, offset_minutes |-> offset_minutes,
     trigger_time |-> trigger_time, reason |-> reason]

\* sorted(reminder_offsets, reverse=True)
RECURSIVE sorted_reverse(_)
sorted_reverse(offsets) ==
    IF offsets = <<>> THEN <<>>
    ELSE LET i == CHOOSE i \in 1..Len(offsets) :
                      /\ \A j \in 1..Len(offsets) : offsets[j] <= offsets[i]
                      /\ \A j \in 1..(i - 1) : offsets[j] < offsets[i]
         IN  <<offsets[i]>> \o
             sorted_reverse([j \in 1..(Len(offsets) - 1) |->
                                IF j < i THEN offsets[j] ELSE offsets[j + 1]])

\* the loop of _evaluate_timed_event over the offsets left
RECURSIVE timed_loop(_, _, _, _, _)
timed_loop(event, now, offsets, st, ready) ==
    IF offsets = <<>> THEN ready
    ELSE LET offset == Head(offsets)
             trigger_time == event.start_time - offset
         IN  IF was_notified(st, reminder_key(event, offset))
             THEN timed_loop(event, now, Tail(offsets), st, ready)
             ELSE IF trigger_time <= now /\ now <= event.start_time
             THEN timed_loop(event, now, Tail(offsets), st,
                             Append(ready, Reminder(event, offset, trigger_time, "offset")))
             ELSE timed_loop(event, now, Tail(offsets), st, ready)

\* an engine that never consults the state store for a timed event
_evaluate_timed_event_unmarked(event, now, offsets, st) ==
    timed_loop(event, now, offsets, {}, <<>>)

\* ReminderEngine._evaluate_timed_event
_evaluate_timed_event(event, now, offsets, st) ==
    timed_loop(event, now, offsets, st, <<>>)

\* ReminderEngine.evaluate, engine being the fields __init__ set
RECURSIVE evaluate(_, _, _, _)
evaluate(evs, now, engine, st) ==
    IF evs = <<>> THEN <<>>
    ELSE LET event == Head(evs)
             reminders ==
                 IF event.start_time # NoTime
                    /\ is_within_window(event.start_time, now, engine.ahead_minutes)
                 THEN _evaluate_timed_event(event, now, engine.reminder_offsets, st)
                 ELSE IF event.start_time = NoTime /\ engine.notify_tba_once
                 THEN IF ~was_notified(st, without_time_key(event))
                      THEN <<Reminder(event, NoOffset, now, "tba")>>
                      ELSE <<>>
                 ELSE <<>>
         IN  reminders \o evaluate(Tail(evs), now, engine, st)

\* ReminderEngine.__init__
ReminderEngine(ahead_minutes, reminder_offsets, notify_tba_once) ==
    [ahead_minutes |-> ahead_minutes,
     reminder_offsets |-> sorted_reverse(reminder_offsets),
     notify_tba_once |-> notify_tba_once]

\* the key a caller marks once it has delivered a reminder
KeyOf(reminder) ==
    IF reminder.offset_minutes = NoOffset
    THEN without_time_key(reminder.event)
    ELSE reminder_key(reminder.event, reminder.offset_minutes)

\* the events of the engine's tests, and one that starts half an hour later
EngineEvents ==
    {Timed("today", "OMEGA", "10:20", 10 * 60 + 20, "json"),
     Timed("today", "BETA", "10:50", 10 * 60 + 50, "json"),
     Timed("upcoming", "SIGMA", "TBA", NoTime, "dom")}

EngineLists ==
    {<<e>> : e \in EngineEvents}
    \cup {pair \in EngineEvents \X EngineEvents : pair[1] # pair[2]}

\* a state store of 48 hours, or one that keeps nothing past the instant
Ttls == {0, 48 * 60}

\* one engine over one store, and the events it is asked about
EngineSetups ==
    {[fn |-> "engine", events |-> evs, ttl |-> ttl,
      engine |-> ReminderEngine(ahead_minutes, reminder_offsets, notify_tba_once)] :
        evs \in EngineLists, ttl \in Ttls, ahead_minutes \in {10, 30},
        reminder_offsets \in {<<20, 5>>, <<5, 30>>}, notify_tba_once \in BOOLEAN}

\* the instants the engine is called at: 10:00 .. 10:30, and past the 48 hours
EngineNows == {10 * 60, 10 * 60 + 10, 10 * 60 + 20, 10 * 60 + 30, 58 * 60 + 10}

InitEngine ==
    /\ arg \in EngineSetups
    /\ clock = 10 * 60
    /\ state = {}
    /\ marked = {}
    /\ ret = <<>>
    /\ last = NoLast
    /\ advances = 0
    /\ events = <<>>
    /\ notifs = <<>>
    /\ logs = <<>>
    /\ pc = "idle"
    /\ dnow = NoTime
    /\ tasks = <<>>
    /\ res = NoRes
    /\ hist = <<>>
    /\ cfg = "none"
    /\ dead = {}
    /\ db = <<>>

\* what a call on the engine or its store leaves alone
EngineFrame ==
    UNCHANGED <<advances, events, notifs, logs, pc, dnow, tasks, res, hist,
                cfg, dead, arg, db>>

\* time passes between two calls
EngineAdvance ==
    /\ \E now \in EngineNows : now > clock /\ clock' = now
    /\ last' = NoLast
    /\ UNCHANGED <<state, marked, ret>>
    /\ EngineFrame

\* engine.evaluate(events, now)
Evaluate ==
    /\ ret' = evaluate(arg.events, clock, arg.engine, state)
    /\ last' = Last("evaluate", 0)
    /\ UNCHANGED <<clock, state, marked>>
    /\ EngineFrame

\* state.mark_notified(key, now), for a reminder the last evaluate returned
MarkNotified ==
    /\ last.what \in {"evaluate", "mark_notified"}
    /\ \E k \in 1..Len(ret) :
          /\ state' = mark_notified(state, KeyOf(ret[k]), clock)
          /\ marked' = marked \cup {KeyOf(ret[k])}
    /\ last' = Last("mark_notified", 0)
    /\ UNCHANGED <<clock, ret>>
    /\ EngineFrame

\* state.prune(now)
Prune ==
    /\ state' = prune(state, clock, arg.ttl)
    /\ last' = Last("prune", 0)
    /\ UNCHANGED <<clock, marked, ret>>
    /\ EngineFrame

NextEngine ==
    \/ EngineAdvance
    \/ Evaluate
    \/ MarkNotified
    \/ Prune

SpecEngine == InitEngine /\ [][NextEngine]_vars

----------------------------------------------------------------------------
(* persistence/database.py: concurrent connect calls on one Database *)

\* the tasks that call connect, and the calls each of them makes
MaxCallers == 3
MaxConnects == 2

Callers == 1..MaxCallers

\* self._pool = None
NoPool == 0

\* no connect call of the task is under way
NoCall == [pc |-> "idle", calls |-> 0, via |-> "", saw |-> NoPool]

\* Database.__init__: no pool, the lock free; created counts the pools that
\* aiomysql.create_pool has returned
Database ==
    [pool |-> NoPool, lock |-> 0, created |-> 0, callers |-> [c \in Callers |-> NoCall]]

\* fault variant: a lock that excludes no one
lock_free_always(d) == TRUE

\* asyncio.Lock: acquire goes through when no task holds the lock
lock_free(d) == d.lock = 0

\* the call of task c returns by way of `via`, the pool it leaves in place seen
returned(d, c, via) ==
    [d EXCEPT !.callers[c].pc = "done", !.callers[c].via = via,
              !.callers[c].saw = d.pool]

InitDb ==
    /\ db = Database
    /\ arg = <<>>
    /\ ret = <<>>
    /\ last = NoLast
    /\ clock = 9 * 60 + 50
    /\ advances = 0
    /\ events = <<>>
    /\ notifs = <<>>
    /\ logs = <<>>
    /\ pc = "idle"
    /\ dnow = 0
    /\ tasks = <<>>
    /\ res = NoRes
    /\ hist = <<>>
    /\ cfg = "none"
    /\ dead = {}
    /\ state = {}
    /\ marked = {}

\* what a step of connect leaves alone
DbFrame ==
    UNCHANGED <<clock, advances, events, notifs, logs, pc, dnow, tasks, res, hist,
                cfg, dead, last, arg, ret, state, marked>>

\* a task calls connect()
ConnectCall(c) ==
    /\ db.callers[c].pc \in {"idle", "done", "raised"}
    /\ db.callers[c].calls < MaxConnects
    /\ db' = [db EXCEPT !.callers[c].pc = "check", !.callers[c].calls = @ + 1,
                        !.callers[c].via = "", !.callers[c].saw = NoPool]
    /\ DbFrame

\* if self._pool: return
ConnectCheck(c) ==
    /\ db.callers[c].pc = "check"
    /\ db' = IF db.pool # NoPool THEN returned(db, c, "check")
             ELSE [db EXCEPT !.callers[c].pc = "acquire"]
    /\ DbFrame

\* async with self._lock: the task waits until the lock is free
ConnectAcquire(c) ==
    /\ db.callers[c].pc = "acquire"
    /\ lock_free(db)
    /\ db' = [db EXCEPT !.lock = c, !.callers[c].pc = "recheck"]
    /\ DbFrame

\* if self._pool: return, inside the lock, which the return releases
ConnectRecheck(c) ==
    /\ db.callers[c].pc = "recheck"
    /\ db' = IF db.pool # NoPool
             THEN [returned(db, c, "recheck") EXCEPT !.lock = 0]
             ELSE [db EXCEPT !.callers[c].pc = "create"]
    /\ DbFrame

\* self._pool = await aiomysql.create_pool(**self._params): the pool comes
\* back and is assigned, or create_pool raises; both leave the lock
ConnectCreate(c) ==
    /\ db.callers[c].pc = "create"
    /\ \/ db' = [returned([db EXCEPT !.pool = db.created + 1,
                                     !.created = db.created + 1], c, "create")
                    EXCEPT !.lock = 0]
       \/ db' = [db EXCEPT !.lock = 0, !.callers[c].pc = "raised"]
    /\ DbFrame

NextDb ==
    \/ \E c \in Callers : ConnectCall(c)
    \/ \E c \in Callers : ConnectCheck(c)
    \/ \E c \in Callers : ConnectAcquire(c)
    \/ \E c \in Callers : ConnectRecheck(c)
    \/ \E c \in Callers : ConnectCreate(c)

SpecDb == InitDb /\ [][NextDb]_vars

----------------------------------------------------------------------------
(* persistence/database.py: the operations of a Database and the connections
   they take from the pool *)

\* the operations a task makes one after another
MaxOps == 2

\* two tasks that share the Database
OpTasks == {"a", "b"}

Operations == {"execute", "executemany", "fetchone", "fetchall", "ensure_schema"}

\* no operation of the task is under way; got: its last operation had a
\* connection, out: how it ended
NoOp == [pc |-> "idle", op |-> "", left |-> 0, calls |-> 0, got |-> FALSE, out |-> ""]

\* the awaits inside the cursor block: execute, then a fetch for the two
\* fetch operations; one execute per statement of the schema file
Awaits(op, statements) ==
    IF op \in {"fetchone", "fetchall"} THEN 2
    ELSE IF op = "ensure_schema" THEN statements
    ELSE 1

\* fault variant: the connection stays out of the pool
release_nothing(held, t) == held

\* self._pool.release(conn)
release(held, t) == held \ {t}

\* a Database with its pool created (or not yet), no connection taken
InitOps ==
    /\ db \in {[pool |-> pool, maxsize |-> maxsize, held |-> {},
                schema_initialized |-> FALSE, tasks |-> [t \in OpTasks |-> NoOp]] :
                  pool \in {NoPool, 1}, maxsize \in {1, 2}}
    /\ arg = <<>>
    /\ ret = <<>>
    /\ last = NoLast
    /\ clock = 9 * 60 + 50
    /\ advances = 0
    /\ events = <<>>
    /\ notifs = <<>>
    /\ logs = <<>>
    /\ pc = "idle"
    /\ dnow = 0
    /\ tasks = <<>>
    /\ res = NoRes
    /\ hist = <<>>
    /\ cfg = "none"
    /\ dead = {}
    /\ state = {}
    /\ marked = {}

\* the operation of task t ends: it returned, or it raised
Ended(d, t, out) ==
    [d EXCEPT !.tasks[t].pc = "idle", !.tasks[t].out = out, !.tasks[t].left = 0]

\* a task calls an operation; what runs before the cursor block: the return
\* of executemany on an empty params_seq, and the returns and the
\* FileNotFoundError of ensure_schema
OpCall(t) ==
    /\ db.tasks[t].pc = "idle"
    /\ db.tasks[t].calls < MaxOps
    /\ \E op \in Operations, early \in {"", "empty", "missing"}, statements \in {1, 2} :
          LET d == [db EXCEPT !.tasks[t].op = op, !.tasks[t].calls = @ + 1,
                              !.tasks[t].got = FALSE, !.tasks[t].out = ""]
          IN  /\ early = "missing" => op = "ensure_schema"
              /\ early = "empty" => op \in {"executemany", "ensure_schema"}
              /\ db' = IF op = "ensure_schema" /\ db.schema_initialized
                       THEN Ended(d, t, "returned")
                       ELSE IF early = "missing" THEN Ended(d, t, "raised")
                       ELSE IF early = "empty"
                       THEN [Ended(d, t, "returned") EXCEPT
                                !.schema_initialized = @ \/ op = "ensure_schema"]
                       ELSE [d EXCEPT !.tasks[t].pc = "acquire",
                                      !.tasks[t].left = Awaits(op, statements)]
    /\ DbFrame

\* Database.acquire up to its yield: RuntimeError without a pool; else
\* await self._pool.acquire(), which waits for a free connection, or raises
OpAcquire(t) ==
    /\ db.tasks[t].pc = "acquire"
    /\ \/ /\ db.pool = NoPool
          /\ db' = Ended(db, t, "raised")
       \/ /\ db.pool # NoPool
          /\ db' = Ended(db, t, "raised")
       \/ /\ db.pool # NoPool
          /\ Cardinality(db.held) < db.maxsize
          /\ db' = [db EXCEPT !.held = @ \cup {t}, !.tasks[t].pc = "run",
                              !.tasks[t].got = TRUE]
    /\ DbFrame

\* one await inside the cursor block (cur.execute, cur.executemany,
\* cur.fetchone, cur.fetchall): it completes, or it raises
OpStep(t) ==
    /\ db.tasks[t].pc = "run"
    /\ \/ db' = [db EXCEPT !.tasks[t].left = @ - 1,
                           !.tasks[t].pc = IF db.tasks[t].left = 1 THEN "leave" ELSE "run"]
       \/ db' = [db EXCEPT !.tasks[t].pc = "leave_raising"]
    /\ DbFrame

\* the block is left: the cursor is closed (which may raise too), and the
\* finally of acquire releases the connection
OpLeave(t) ==
    /\ db.tasks[t].pc \in {"leave", "leave_raising"}
    /\ \E closed \in BOOLEAN :
          LET out == IF db.tasks[t].pc = "leave" /\ closed THEN "returned" ELSE "raised"
          IN  db' = [Ended(db, t, out) EXCEPT
                        !.held = release(db.held, t),
                        !.schema_initialized =
                            @ \/ (db.tasks[t].op = "ensure_schema" /\ out = "returned")]
    /\ DbFrame

NextOps ==
    \/ \E t \in OpTasks : OpCall(t)
    \/ \E t \in OpTasks : OpAcquire(t)
    \/ \E t \in OpTasks : OpStep(t)
    \/ \E t \in OpTasks : OpLeave(t)

SpecOps == InitOps /\ [][NextOps]_vars

----------------------------------------------------------------------------
(* Properties *)

NotifIds == 1..Len(notifs)

Terminal(row) == row.status \in {"sent", "failed"}

LogsOf(id) == {k \in 1..Len(logs) : logs[k].notification_id = id}

\* (token, raw_time) of the event row a notification row references
EventKeyOf(tbl, row) == <<tbl[row.event_id].token, tbl[row.event_id].raw_time>>

\* C1: while no tick has crashed, notifier.send has been called at most once
\* for every notification row, and every row a running tick has selected and
\* not yet handled is pending and was never taken by an earlier tick.
C1_SendAtMostOnce ==
    "dispatch" \notin dead =>
        /\ \A id \in NotifIds : hist[id].sends <= 1
        /\ \A k \in 1..Len(tasks) :
              (k > 1 \/ pc = "loop") =>
                  /\ notifs[tasks[k].id].status = "pending"
                  /\ hist[tasks[k].id].sends = 0
                  /\ hist[tasks[k].id].at = 0

\* C1 witness: a later tick has fetched its due rows at a time when a row
\* sent once by an earlier tick is due, and has not selected that row.
C1_Witness ==
    /\ "dispatch" \notin dead
    /\ pc = "loop"
    /\ \E id \in NotifIds :
          /\ hist[id].sends = 1
          /\ hist[id].at < dnow
          /\ notifs[id].remind_at <= dnow
          /\ \A k \in 1..Len(tasks) : tasks[k].id # id

\* C2: at every tick boundary of a run without crash, a notification row has
\* attempts >= 1 if and only if notifier.send was called for it.
C2_AttemptsIffSend ==
    (pc = "idle" /\ "dispatch" \notin dead) =>
        \A id \in NotifIds : (notifs[id].attempts >= 1) <=> (hist[id].sends >= 1)

\* C3: no step changes the status of a notification row that is sent or
\* failed, and no step removes the row.
C3_StatusMonotonic ==
    [][\A id \in NotifIds :
          Terminal(notifs[id]) =>
              /\ id <= Len(notifs')
              /\ notifs'[id].status = notifs[id].status]_vars

\* C3 witness: a later tick marks another row while a row sent by an earlier
\* tick is stored.
C3_Witness ==
    /\ pc = "mark"
    /\ \E id \in NotifIds :
          /\ notifs[id].status = "sent"
          /\ hist[id].at < dnow
          /\ Head(tasks).id # id

C4_OneRowPerKey ==
    \A i, j \in NotifIds :
        NotificationKey(notifs[i]) = NotificationKey(notifs[j]) => i = j

\* C4: the notifications table never holds two rows with the same
\* (event_id, offset_minutes, remind_at), and a call of ensure_notifications
\* (every step taken between two ticks) leaves every existing row as it is.
C4_EnsureIdempotent ==
    /\ []C4_OneRowPerKey
    /\ [][pc = "idle" =>
            \A i \in NotifIds : i <= Len(notifs') /\ notifs'[i] = notifs[i]]_vars

\* C4 witness: ensure_notifications has just been called again with the key
\* of a row that a tick had already marked.
C4_Witness ==
    /\ last.what = "insert_ignored"
    /\ \E i \in NotifIds :
          /\ notifs[i].event_id = last.id
          /\ notifs[i].remind_at = events[last.id].start_time - ReminderOffset
          /\ Terminal(notifs[i])
          /\ notifs[i].attempts = 1

\* C5: once a notification row is sent or failed, no step adds a notification
\* row for the same event (token, raw_time) and no step calls notifier.send
\* for the row again.
C5_NoRenotification ==
    [][\A i \in NotifIds :
          Terminal(notifs[i]) =>
              /\ \A j \in (Len(notifs) + 1)..Len(notifs') :
                    EventKeyOf(events', notifs'[j]) # EventKeyOf(events, notifs[i])
              /\ hist'[i].sends = hist[i].sends]_vars

\* C5 witness: a tick has just observed again an event whose reminder is
\* sent or failed.
C5_Witness ==
    /\ last.what = "reobserved"
    /\ \E i \in NotifIds : notifs[i].event_id = last.id /\ Terminal(notifs[i])

\* C6: when a tick handles a row with remind_at <= now < start_time, it has
\* called notifier.send exactly once for it, and marks it sent when the
\* endpoint answered below 300.
C6_DeliveredBeforeEvent ==
    (/\ pc = "mark"
     /\ Head(tasks).remind_at <= dnow
     /\ dnow < Head(tasks).event_time) =>
        /\ hist[Head(tasks).id].sends = 1
        /\ res.reason # "event_time_in_future"

\* C7: when every HTTP try of a send was answered with a status >= 300, the
\* tick marks the row once, with success = false: the row becomes failed, its
\* attempts grow by 1 to 1, and one log row, with endpoint '/error', exists
\* for it.
C7_RetryThenFailure ==
    [][(/\ pc = "mark"
        /\ pc' = "loop"
        /\ res.tries = RetryAttempts
        /\ ~res.success
        /\ res.reason \in {"xsend failed", "template send failed"}) =>
           /\ notifs'[Head(tasks).id].status = "failed"
           /\ notifs'[Head(tasks).id].attempts = notifs[Head(tasks).id].attempts + 1
           /\ notifs'[Head(tasks).id].attempts = 1
           /\ hist[Head(tasks).id].sends = 1
           /\ Cardinality(LogsOf(Head(tasks).id)) = 1
           /\ \A k \in LogsOf(Head(tasks).id) : logs[k].endpoint = "/error"]_vars

\* C7 witness: a row is failed after a send whose last HTTP try was answered
\* with a status >= 300.
C7_Witness ==
    \E id \in NotifIds :
        /\ notifs[id].status = "failed"
        /\ notifs[id].fail_reason = "xsend failed"
        /\ notifs[id].attempts = 1
        /\ Cardinality(LogsOf(id)) = 1

\* C8: no exception escapes run_once, so the loop of the worker always
\* reaches its next tick.
C8_NoExceptionEscapes == "watch" \notin dead

\* C9: a run_once whose fetch_events raised returns, leaves the event rows,
\* the notification rows and the log rows as they were and calls
\* notifier.send for no row.
C9_FetchFailureMutatesNothing ==
    [][last'.what = "fetch_failed" =>
          /\ UNCHANGED <<events, notifs, logs, hist>>
          /\ "watch" \notin dead']_vars

\* C9 witness: the fetch of a tick has just failed while a pending row is due.
C9_Witness ==
    /\ last.what = "fetch_failed"
    /\ \E id \in NotifIds : notifs[id].status = "pending" /\ notifs[id].remind_at <= clock

\* C10: every notification row has offset_minutes = 30 and remind_at equal to
\* the start_time of the event row it references minus 30 minutes.
C10_RemindAtFromEventRow ==
    \A i \in NotifIds :
        /\ notifs[i].offset_minutes = ReminderOffset
        /\ notifs[i].remind_at = events[notifs[i].event_id].start_time - ReminderOffset

\* C11: the tasks a tick gets from fetch_due_notifications(now) are, one task
\* each, the notification rows that are pending with remind_at <= now, in
\* ascending order of remind_at.
C11_FetchDueExact ==
    [][(pc = "idle" /\ pc' = "loop") =>
          /\ {tasks'[k].id : k \in 1..Len(tasks')} =
                {i \in NotifIds : notifs[i].status = "pending" /\ notifs[i].remind_at <= clock}
          /\ \A a, b \in 1..Len(tasks') :
                /\ a # b => tasks'[a].id # tasks'[b].id
                /\ a < b => tasks'[a].remind_at <= tasks'[b].remind_at
          /\ \A k \in 1..Len(tasks') :
                tasks'[k].remind_at = notifs[tasks'[k].id].remind_at]_vars

\* C11 witness: a tick has fetched two due rows with different remind_at.
C11_Witness ==
    /\ pc = "loop"
    /\ Len(tasks) = 2
    /\ tasks[1].remind_at < tasks[2].remind_at

\* C12: the list _deduplicate returns holds no two events with the same
\* (section, token, raw_time), and holds an event for every key of its input.
C12_DedupeUnique ==
    last.what = "_deduplicate" =>
        /\ \A i, j \in 1..Len(ret) : DedupeKey(ret[i]) = DedupeKey(ret[j]) => i = j
        /\ {DedupeKey(ret[i]) : i \in 1..Len(ret)} = {DedupeKey(arg.evs[i]) : i \in 1..Len(arg.evs)}
        /\ \A i \in 1..Len(ret) : \E j \in 1..Len(arg.evs) : ret[i] = arg.evs[j]

\* C12 witness: _deduplicate was given a JSON event and a DOM event of one
\* key, and an event of another key.
C12_Witness ==
    /\ last.what = "_deduplicate"
    /\ Len(ret) = 2
    /\ \E i, j \in 1..Len(arg.evs) :
          /\ i # j
          /\ DedupeKey(arg.evs[i]) = DedupeKey(arg.evs[j])
          /\ arg.evs[i].source = "json"
          /\ arg.evs[j].source = "dom"

\* the JSON events come first, then the DOM events (fetch_events)
JsonThenDom(evs) ==
    \A i, j \in 1..Len(evs) : (evs[i].source = "dom" /\ evs[j].source = "json") => i < j

\* C13: when a JSON event and a DOM event of a list (JSON events first) have
\* the same (section, token, raw_time), the event _deduplicate keeps for that
\* key is a DOM event of the list, with its details.
C13_DomSupersedesJson ==
    (last.what = "_deduplicate" /\ JsonThenDom(arg.evs)) =>
        \A i, j \in 1..Len(arg.evs) :
            (/\ arg.evs[i].source = "json"
             /\ arg.evs[j].source = "dom"
             /\ DedupeKey(arg.evs[i]) = DedupeKey(arg.evs[j])) =>
                \E k \in 1..Len(ret), d \in 1..Len(arg.evs) :
                    /\ DedupeKey(ret[k]) = DedupeKey(arg.evs[j])
                    /\ arg.evs[d].source = "dom"
                    /\ ret[k] = arg.evs[d]

\* upsert_events made or changed no row of the key (token, raw_time) and
\* returned no id of such a row
NothingPersistedFor(token, raw) ==
    LET Keyed(tbl) == {i \in 1..Len(tbl) : tbl[i].token = token /\ tbl[i].raw_time = raw}
    IN  /\ Keyed(ret.events) = Keyed(arg.tbl)
        /\ \A i \in Keyed(arg.tbl) : ret.events[i] = arg.tbl[i]
        /\ \A j \in 1..Len(ret.ids) : ret.ids[j] \notin Keyed(ret.events)

\* the events of the call that have the key of event e all satisfy Rejected
AllOfKey(e, Rejected(_)) ==
    \A k \in 1..Len(arg.evs) :
        (arg.evs[k].token = e.token /\ arg.evs[k].raw_time = e.raw_time) => Rejected(arg.evs[k])

\* details.date holds a date that is not today's
DateNotToday(e) == Truthy(e.details.date) /\ e.details.date # DateStr(Day(arg.now))

\* the key details.date is there, with a value that is not today's date
DatePresentNotToday(e) == e.details.date # "absent" /\ e.details.date # DateStr(Day(arg.now))

NoClock(e) == e.raw_time.kind # "hhmm"

\* C14 (as stated): upsert_events creates or updates no row and returns no
\* id for an event whose details.date is present and differs from today's
\* date, or whose raw_time holds no HH:MM.
C14_TodayOnlyAsStated ==
    last.what = "upsert_events" =>
        \A k \in 1..Len(arg.evs) :
            LET R(e) == DatePresentNotToday(e) \/ NoClock(e)
            IN  AllOfKey(arg.evs[k], R) =>
                    NothingPersistedFor(arg.evs[k].token, arg.evs[k].raw_time)

\* C14 (amended): upsert_events creates or updates no row and returns no id
\* for an event whose details.date is a non-empty string that differs from
\* today's date, or whose raw_time holds no HH:MM; it returns at most one id
\* for each event that is neither.
C14_TodayOnly ==
    last.what = "upsert_events" =>
        /\ \A k \in 1..Len(arg.evs) :
              LET R(e) == DateNotToday(e) \/ NoClock(e)
              IN  AllOfKey(arg.evs[k], R) =>
                      NothingPersistedFor(arg.evs[k].token, arg.evs[k].raw_time)
        /\ Len(ret.ids) <= Cardinality({k \in 1..Len(arg.evs) :
                                           ~(DateNotToday(arg.evs[k]) \/ NoClock(arg.evs[k]))})

\* C14 witness: upsert_events was given an event with a clock time and
\* another day's date and an event it stored.
C14_Witness ==
    /\ last.what = "upsert_events"
    /\ Len(ret.ids) = 1
    /\ Len(ret.events) = Len(arg.tbl) + 1
    /\ \E k \in 1..Len(arg.evs) : DateNotToday(arg.evs[k]) /\ ~NoClock(arg.evs[k])

\* C15: whatever ticks have run, alpha_events holds at most one row for a
\* (token, raw_time).
C15_OneEventRowPerKey ==
    \A i, j \in 1..Len(events) :
        (events[i].token = events[j].token /\ events[i].raw_time = events[j].raw_time) => i = j

\* C15 witness: a tick has observed again an event that has its row, with
\* two rows in the table.
C15_Witness ==
    /\ last.what = "reobserved"
    /\ Len(events) = 2

\* C16: for a clock string HH:MM and a reference instant, parse_event_time
\* returns an instant not earlier than reference - 1 h whose clock time is
\* HH:MM: on the date of reference, unless that is more than one hour before
\* reference, and then one day later. Reference 23:30 and "00:15" give 00:15
\* of the next day.
C16_MidnightRollover ==
    (last.what = "parse_event_time" /\ arg.raw.kind = "hhmm") =>
        LET clockTime == arg.raw.h * 60 + arg.raw.m
            refDay == arg.reference \div 1440
            onRefDate == refDay * 1440 + clockTime
        IN  /\ ret >= arg.reference - 60
            /\ ret % 1440 = clockTime
            /\ ret = IF arg.reference - onRefDate > 60 THEN onRefDate + 1440 ELSE onRefDate
            /\ (arg.reference = 23 * 60 + 30 /\ arg.raw = HHMM(0, 15)) => ret = 1440 + 15

\* C16 witness: parse_event_time was applied to "00:15" at reference 23:30
\* and gave an instant of the next day.
C16_Witness ==
    /\ last.what = "parse_event_time"
    /\ arg.raw = HHMM(0, 15)
    /\ arg.reference = 23 * 60 + 30
    /\ ret \div 1440 = 1

\* C17: with a window (start, end), in_quiet_hours is true exactly when the
\* clock time of now is in [start, end) if start <= end, and in
\* [start, 24:00) or [00:00, end) otherwise; with no window it is false. For
\* (22:00, 07:30) it is true at 23:00, 02:00 and 07:29 and false at 07:30,
\* 12:00 and 21:59.
C17_QuietHoursMembership ==
    last.what = "in_quiet_hours" =>
        LET t == arg.now % 1440
            w == arg.quiet_window
        IN  /\ w = <<>> => ret = FALSE
            /\ (w # <<>> /\ w[1] <= w[2]) => (ret <=> (w[1] <= t /\ t < w[2]))
            /\ (w # <<>> /\ w[1] > w[2]) => (ret <=> (w[1] <= t \/ t < w[2]))
            /\ (w = <<1320, 450>> /\ t \in {1380, 120, 449}) => ret = TRUE
            /\ (w = <<1320, 450>> /\ t \in {450, 720, 1319}) => ret = FALSE

\* C17 witness: in_quiet_hours was asked at 02:00 for the window
\* (22:00, 07:30) and answered true.
C17_Witness ==
    /\ last.what = "in_quiet_hours"
    /\ arg.quiet_window = <<1320, 450>>
    /\ arg.now % 1440 = 120
    /\ ret = TRUE

\* the event's raw time resolves, at the tick's now, to an instant of now's date
OnNowsDate(e) ==
    LET start == parse_event_time(e.raw_time, arg.now)
    IN  start # (0 - 1) /\ start \div 1440 = arg.now \div 1440

\* C18: the rows a tick adds belong to events of the tick whose start_time
\* is present and on now's date: every new event row, and the event row and
\* the token of every new notification row, are those of such an event, and
\* no row of the table that was there is changed. Events with no time or a
\* time on another day get no row.
C18_OnlyTodaysTimedEvents ==
    last.what \in {"run_once", "ingest_once"} =>
        LET FromToday(token, raw) ==
                \E k \in 1..Len(arg.batch) :
                    /\ arg.batch[k].token = token
                    /\ arg.batch[k].raw_time = raw
                    /\ OnNowsDate(arg.batch[k])
        IN  /\ Len(ret.events) >= Len(arg.tbl)
            /\ \A i \in 1..Len(arg.tbl) : ret.events[i] = arg.tbl[i]
            /\ \A i \in (Len(arg.tbl) + 1)..Len(ret.events) :
                  /\ FromToday(ret.events[i].token, ret.events[i].raw_time)
                  /\ ret.events[i].start_time \div 1440 = arg.now \div 1440
            /\ \A n \in (Len(arg.ntf) + 1)..Len(ret.notifs) :
                  /\ ret.notifs[n].event_id \in (Len(arg.tbl) + 1)..Len(ret.events)
                  /\ \E k \in 1..Len(arg.batch) :
                        /\ arg.batch[k].token = ret.notifs[n].meta_token
                        /\ OnNowsDate(arg.batch[k])

\* C18 witness: run_once at 09:50 had an event whose 08:00 rolled over to
\* the next day and an event at 10:20, and added one event row.
C18_Witness ==
    /\ last.what = "run_once"
    /\ arg.now = 9 * 60 + 50
    /\ Len(arg.batch) = 2
    /\ arg.batch[1].raw_time = HHMM(8, 0)
    /\ arg.batch[2].raw_time = HHMM(10, 20)
    /\ Len(ret.events) = Len(arg.tbl) + 1

\* the date of an event: details.date, or details.Date when that is missing
\* or empty, without surrounding blanks; "" when there is none
DateOf(e) ==
    LET v == IF e.details.date \in {"absent", ""} THEN e.details.Date ELSE e.details.date
    IN  IF v = "absent" THEN "" ELSE Strip(v)

\* today iff the date, when there is one, is today's; else the section of
\* the heading or key path
FinalSection(e) ==
    IF DateOf(e) # ""
    THEN IF DateOf(e) = "2024-05-26" THEN "today" ELSE "upcoming"
    ELSE e.section

NamedChannel ==
    IF ret.quiet_mode /\ arg.quiet_channel \notin {"absent", ""}
    THEN arg.quiet_channel
    ELSE arg.channel

\* C20 (as stated): the payload of every request made by send holds the
\* channel the claim names; at 02:15 with the window 22:00-07:30 and a quiet
\* channel configured, that is the quiet channel.
C20_ChannelInEveryPayload ==
    last.what = "send" =>
        \A k \in 1..Len(ret.requests) :
            /\ ret.requests[k].channel = NamedChannel
            /\ (arg.now = 135 /\ arg.quiet_hours = <<1320, 450>> /\ arg.quiet_channel = "sms")
                  => ret.requests[k].channel = "sms"

\* C20 (amended): the payload of every xsend request made by send holds the
\* channel the claim names, and the payload of a template request holds no
\* channel; at 02:15 with the window 22:00-07:30 and a quiet channel
\* configured, send is called in quiet mode and every xsend request holds
\* the quiet channel.
C20_ChannelSelection ==
    last.what = "send" =>
        /\ \A k \in 1..Len(ret.requests) :
              /\ ret.requests[k].endpoint = "/xsend" => ret.requests[k].channel = NamedChannel
              /\ ret.requests[k].endpoint = "/send" => ret.requests[k].channel = "absent"
        /\ (arg.now = 135 /\ arg.quiet_hours = <<1320, 450>> /\ arg.quiet_channel = "sms") =>
              /\ ret.quiet_mode
              /\ \A k \in 1..Len(ret.requests) :
                    ret.requests[k].endpoint = "/xsend" => ret.requests[k].channel = "sms"

\* C20 witness: a send at 02:15 in the window 22:00-07:30, quiet channel
\* configured, made an xsend request with the quiet channel.
C20_Witness ==
    /\ last.what = "send"
    /\ arg.now = 135
    /\ arg.quiet_hours = <<1320, 450>>
    /\ arg.quiet_channel = "sms"
    /\ Len(ret.requests) >= 1
    /\ ret.requests[1].endpoint = "/xsend"
    /\ ret.requests[1].channel = "sms"

\* the answer to a request is a TransportError: a request exception (0) or a
\* status of 300 or more
IsTransportError(status) == status = 0 \/ status >= 300

\* the requests of a send are made one after the other, each one but the
\* first after a TransportError; the send returns the result of the first
\* answer below 300 and makes no request after it, and raises when the
\* third request fails
RetryDiscipline ==
    LET n == Len(ret.requests)
    IN  /\ n <= 3
        /\ \A k \in 1..(n - 1) : IsTransportError(arg.resps[k])
        /\ n >= 1 =>
              /\ ret.result.tries = n
              /\ ret.result.success <=> ~IsTransportError(arg.resps[n])
              /\ ~ret.result.success => n = 3
              /\ ret.result.success => ret.result.endpoint = ret.requests[n].endpoint
              /\ ~ret.result.success => ret.result.endpoint = "/error"

\* C21 (as stated): one send makes at least 1 and at most 3 requests, a
\* further one only after a TransportError; it stops at the first answer
\* below 300 and returns its result, and raises after the third failure.
C21_BoundedRetryEverySend ==
    last.what = "send" =>
        /\ Len(ret.requests) >= 1
        /\ RetryDiscipline

\* C21 (amended): a send with a transport configured (an xsend user id, or a
\* template id with targets) makes at least 1 and at most 3 requests, a
\* further one only after a TransportError; it stops at the first answer
\* below 300 and returns its result, and raises after the third failure. A
\* send with neither configured makes no request and raises.
C21_BoundedRetry ==
    last.what = "send" =>
        /\ arg.config # "none" => Len(ret.requests) >= 1
        /\ arg.config = "none" => (Len(ret.requests) = 0 /\ ~ret.result.success)
        /\ RetryDiscipline

\* C21 witness: a send whose first two requests failed (503, then a request
\* exception) and whose third was answered 200 returned that result.
C21_Witness ==
    /\ last.what = "send"
    /\ arg.resps = <<503, 0, 200>>
    /\ Len(ret.requests) = 3
    /\ ret.result.success

\* the task's event time (that of the event row, else remind_at + offset)
\* exists and is later than the tick's now
DueBeforeItsEvent(task) ==
    LET event_time == IF task.event_time = 0 - 1
                      THEN task.remind_at + task.offset_minutes
                      ELSE task.event_time
    IN  event_time > dnow

\* C22: for a due task whose event time is later than now, the tick calls
\* no notifier.send; it appends one log row for it, and then marks the row
\* failed with fail_reason event_time_in_future.
C22_FutureEventCheck ==
    [][(tasks # <<>> /\ DueBeforeItsEvent(Head(tasks))) =>
          LET id == Head(tasks).id
          IN  /\ (pc = "loop" /\ pc' = "log") =>
                    /\ hist'[id].sends = hist[id].sends
                    /\ logs' = logs
              /\ (pc = "log" /\ pc' = "mark") =>
                    /\ Len(logs') = Len(logs) + 1
                    /\ logs'[Len(logs')].notification_id = id
                    /\ logs'[Len(logs')].endpoint = "/error"
                    /\ notifs'[id].status = "pending"
              /\ (pc = "mark" /\ pc' = "loop") =>
                    /\ notifs'[id].status = "failed"
                    /\ notifs'[id].fail_reason = "event_time_in_future"
                    /\ hist[id].sends = 0
                    /\ Cardinality(LogsOf(id)) = 1]_vars

\* C22 witness: a row was marked failed with event_time_in_future, with one
\* log row and no send.
C22_Witness ==
    \E id \in NotifIds :
        /\ notifs[id].status = "failed"
        /\ notifs[id].fail_reason = "event_time_in_future"
        /\ hist[id].sends = 0
        /\ Cardinality(LogsOf(id)) = 1

\* the reminders the last evaluate returned for event e at offset o
RemindersFor(e, o) == {k \in 1..Len(ret) : ret[k].event = e /\ ret[k].offset_minutes = o}

AskedEvents == {arg.events[i] : i \in 1..Len(arg.events)}

ConfiguredOffsets ==
    {arg.engine.reminder_offsets[i] : i \in 1..Len(arg.engine.reminder_offsets)}

\* the event starts within ahead_minutes of now
WithinAhead(e) ==
    e.start_time # NoTime /\ clock <= e.start_time
        /\ e.start_time - clock <= arg.engine.ahead_minutes

\* C23 (as stated): evaluate returns, for an event starting within ahead_minutes
\* of now, one reminder for each configured offset with
\* start_time - offset <= now <= start_time whose reminder_key is not in the
\* store and none for another offset, and once mark_notified was called with
\* the reminder_key of an offset no later evaluate returns a reminder for it.
C23_NeverAgainOnceMarked ==
    last.what = "evaluate" =>
        \A e \in AskedEvents : \A o \in ConfiguredOffsets :
            reminder_key(e, o) \in marked => RemindersFor(e, o) = {}

\* C23: evaluate returns, for an event starting within ahead_minutes of now, one
\* reminder for each configured offset with start_time - offset <= now <=
\* start_time whose reminder_key is not in the store, none for any other offset,
\* and none for an offset as long as its reminder_key is in the store.
C23_OffsetReminders ==
    last.what = "evaluate" =>
        \A e \in AskedEvents :
            /\ WithinAhead(e) =>
                  /\ \A o \in ConfiguredOffsets :
                        Cardinality(RemindersFor(e, o)) =
                            IF /\ e.start_time - o <= clock
                               /\ clock <= e.start_time
                               /\ \A entry \in state : entry.key # reminder_key(e, o)
                            THEN 1 ELSE 0
                  /\ \A k \in 1..Len(ret) :
                        ret[k].event = e =>
                            /\ ret[k].offset_minutes \in ConfiguredOffsets
                            /\ ret[k].trigger_time = e.start_time - ret[k].offset_minutes
            /\ \A o \in ConfiguredOffsets :
                  (\E entry \in state : entry.key = reminder_key(e, o))
                      => RemindersFor(e, o) = {}

\* C23 witness: the first test's case, then the marked offset stays silent
C23_Witness ==
    /\ last.what = "evaluate"
    /\ \E e \in AskedEvents :
          /\ WithinAhead(e)
          /\ reminder_key(e, 20) \in marked
          /\ \E entry \in state : entry.key = reminder_key(e, 20)
          /\ RemindersFor(e, 20) = {}
          /\ 20 \in ConfiguredOffsets
          /\ e.start_time - 20 <= clock
          /\ RemindersFor(e, 5) # {}

\* C24 (as stated): with notify_tba_once, evaluate returns exactly one reminder,
\* its offset absent, for an event without start_time whose without_time_key is
\* not in the store, and none in every evaluate after mark_notified was called
\* with that key.
C24_NeverAgainOnceAnnounced ==
    (last.what = "evaluate" /\ arg.engine.notify_tba_once) =>
        \A e \in AskedEvents :
            (e.start_time = NoTime /\ without_time_key(e) \in marked)
                => \A k \in 1..Len(ret) : ret[k].event # e

\* C24: with notify_tba_once, evaluate returns for an event without start_time
\* exactly one reminder, its offset absent, when the event's without_time_key is
\* not in the store, and none as long as the key is in the store.
C24_AnnouncedOnce ==
    (last.what = "evaluate" /\ arg.engine.notify_tba_once) =>
        \A e \in AskedEvents :
            e.start_time = NoTime =>
                IF \E entry \in state : entry.key = without_time_key(e)
                THEN \A k \in 1..Len(ret) : ret[k].event # e
                ELSE /\ Cardinality({k \in 1..Len(ret) : ret[k].event = e}) = 1
                     /\ Cardinality(RemindersFor(e, NoOffset)) = 1

\* C24 witness: an event without start_time was announced, its key marked, and
\* the evaluate after that returned nothing for it
C24_Witness ==
    /\ last.what = "evaluate"
    /\ arg.engine.notify_tba_once
    /\ \E e \in AskedEvents :
          /\ e.start_time = NoTime
          /\ without_time_key(e) \in marked
          /\ \E entry \in state : entry.key = without_time_key(e)
          /\ \A k \in 1..Len(ret) : ret[k].event # e

\* the endpoints a delivered send reports
SendEndpoints == {"/xsend", "/send"}

\* a sent or failed row has a log row, of a send endpoint when sent and of
\* "/error" when failed
LoggedWhenMarked ==
    \A id \in NotifIds :
        /\ notifs[id].status = "sent" =>
              (LogsOf(id) # {} /\ \A k \in LogsOf(id) : logs[k].endpoint \in SendEndpoints)
        /\ notifs[id].status = "failed" =>
              (LogsOf(id) # {} /\ \A k \in LogsOf(id) : logs[k].endpoint = "/error")

\* C25: for every task a tick dispatches exactly one log row is appended, and
\* before the row's status changes: the log step appends one row for the task,
\* with the endpoint of the send result or "/error" when there is none, while
\* the row is still pending; the mark step appends nothing; and in every state a
\* sent or failed row has a log row with that endpoint.
C25_LogBeforeMark ==
    [][/\ LoggedWhenMarked'
       /\ (pc = "log" /\ pc' = "mark") =>
             /\ Len(logs') = Len(logs) + 1
             /\ logs'[Len(logs')].notification_id = Head(tasks).id
             /\ logs'[Len(logs')].endpoint = res.endpoint
             /\ res.success <=> res.endpoint \in SendEndpoints
             /\ ~res.success <=> res.endpoint = "/error"
             /\ notifs' = notifs
             /\ notifs[Head(tasks).id].status = "pending"
       /\ (pc = "mark" /\ pc' = "loop") =>
             /\ logs' = logs
             /\ Cardinality(LogsOf(Head(tasks).id)) = 1
             /\ notifs'[Head(tasks).id].status = IF res.success THEN "sent" ELSE "failed"
       /\ (\E id \in NotifIds : notifs'[id].status # notifs[id].status) => pc = "mark"
       /\ logs' # logs => pc = "log"]_vars

\* C25 witness: one row sent and one failed, each with its one log row
C25_Witness ==
    \E i, j \in NotifIds :
        /\ notifs[i].status = "sent"
        /\ notifs[j].status = "failed"
        /\ Cardinality(LogsOf(i)) = 1
        /\ Cardinality(LogsOf(j)) = 1
        /\ \A k \in LogsOf(i) : logs[k].endpoint \in SendEndpoints
        /\ \A k \in LogsOf(j) : logs[k].endpoint = "/error"

\* C26: the due tasks of one tick come in ascending remind_at, and two tasks
\* with the same remind_at in ascending id.
C26_DispatchOrder ==
    last.what = "fetch_due_notifications" =>
        \A a, b \in 1..Len(ret) :
            a < b => \/ ret[a].remind_at < ret[b].remind_at
                     \/ /\ ret[a].remind_at = ret[b].remind_at
                        /\ ret[a].id < ret[b].id

\* the reminder row of the k-th event of the call exists in table ntf
HasReminderRow(ntf, k) ==
    \E i \in 1..Len(ntf) :
        NotificationKey(ntf[i]) =
            <<arg.ids[k], ReminderOffset, arg.evs[k].start_time - ReminderOffset>>

\* C27: ensure_notifications(event_ids, events, channel, now) creates no row
\* for an event exactly when now - start_time >= 30 minutes, now being its
\* now argument, and creates the row, if it is not there yet, for every other
\* event with a start_time.
C27_SkipLongStartedByNow ==
    last.what = "ensure_notifications" =>
        /\ \A i \in 1..Len(arg.ntf) : ret[i] = arg.ntf[i]
        /\ \A k \in 1..Len(arg.evs) :
              arg.evs[k].start_time # NoTime =>
                  IF arg.now - arg.evs[k].start_time >= ReminderOffset
                  THEN HasReminderRow(ret, k) <=> HasReminderRow(arg.ntf, k)
                  ELSE HasReminderRow(ret, k)

\* the events of the call that upsert_events does not skip and whose
\* (token, raw_time) has a row in the table of the call
Reobserved ==
    {k \in 1..Len(arg.evs) :
        /\ ~SkipByDate(arg.evs[k], arg.now)
        /\ _is_valid_time_format(arg.evs[k].raw_time)
        /\ SelectEventId(arg.tbl, arg.evs[k].token, arg.evs[k].raw_time) # 0}

\* C28: when upsert_events receives an event whose (token, raw_time) has a row,
\* it overwrites start_time and the details of that row, inserts no row for it,
\* returns the id of the row, and does not raise, so that the tick goes on.
C28_ReobservationOverwrites ==
    last.what = "upsert_events" =>
        \A k \in Reobserved :
            LET id == SelectEventId(arg.tbl, arg.evs[k].token, arg.evs[k].raw_time)
            IN  /\ ~ret.raised
                /\ \E j \in 1..Len(ret.ids) : ret.ids[j] = id
                /\ Cardinality({i \in 1..Len(ret.events) :
                                   /\ ret.events[i].token = arg.evs[k].token
                                   /\ ret.events[i].raw_time = arg.evs[k].raw_time}) = 1
                /\ (\A l \in Reobserved : l <= k) =>
                      /\ ret.events[id].start_time = arg.evs[k].start_time
                      /\ ret.events[id].details = arg.evs[k].details

\* sent_at is set on the rows with status sent and on no other
SentAtIffSent ==
    \A id \in NotifIds : notifs[id].sent_at # "NULL" <=> notifs[id].status = "sent"

\* C29: in every state a notification row has sent_at set if and only if its
\* status is sent; a call of mark_notification_sent sets sent_at when the new
\* status is sent, leaves it as it was when the new status is failed, and
\* adds exactly 1 to attempts.
C29_SentAtIffSent ==
    [][/\ SentAtIffSent'
       /\ (pc = "mark" /\ pc' = "loop") =>
             LET id == Head(tasks).id
             IN  /\ notifs'[id].attempts = notifs[id].attempts + 1
                 /\ notifs'[id].status = "sent" => notifs'[id].sent_at = "NOW()"
                 /\ notifs'[id].status = "failed" =>
                       notifs'[id].sent_at = notifs[id].sent_at
                 /\ \A other \in NotifIds \ {id} : notifs'[other] = notifs[other]
       /\ (\E id \in NotifIds :
              \/ notifs'[id].attempts # notifs[id].attempts
              \/ notifs'[id].sent_at # notifs[id].sent_at) => pc = "mark"]_vars

\* C29 witness: a sent row with sent_at set and a failed row without, each
\* after its one call
C29_Witness ==
    \E i, j \in NotifIds :
        /\ notifs[i].status = "sent" /\ notifs[i].sent_at = "NOW()"
        /\ notifs[i].attempts = 1
        /\ notifs[j].status = "failed" /\ notifs[j].sent_at = "NULL"
        /\ notifs[j].attempts = 1

\* at most one pool was ever created, and every call that has returned left
\* that one pool in place
OnePool ==
    /\ db.created <= 1
    /\ db.pool \in {NoPool, 1}
    /\ \A c \in Callers :
          db.callers[c].pc = "done" =>
              /\ db.created = 1
              /\ db.pool = 1
              /\ db.callers[c].saw = 1

\* C30: however concurrent connect calls on one Database interleave, the pool
\* is created once, every call that returns leaves that same pool in place,
\* and a connect call on a Database that has its pool creates nothing.
C30_PoolCreatedOnce ==
    [][/\ OnePool'
       /\ db.pool # NoPool => (db'.pool = db.pool /\ db'.created = db.created)]_vars

\* C30 witness: every task has returned; one created the pool, one had
\* waited for the lock and found the pool inside it, one found it at once
C30_Witness ==
    /\ \A c \in Callers : db.callers[c].pc = "done"
    /\ \E a, b, c \in Callers :
          /\ db.callers[a].via = "create"
          /\ db.callers[b].via = "recheck"
          /\ db.callers[c].via = "check"
    /\ db.created = 1

\* C31: after every Database operation has returned or raised, the connection
\* it acquired is back in the pool: a task between two operations holds none,
\* and with no operation under way no connection is outside the pool.
C31_ReleasedAfterEveryOperation ==
    /\ \A t \in OpTasks : db.tasks[t].pc = "idle" => t \notin db.held
    /\ (\A t \in OpTasks : db.tasks[t].pc = "idle") => db.held = {}
    /\ \A t \in db.held : db.tasks[t].pc \in {"run", "leave", "leave_raising"}
    /\ Cardinality(db.held) <= db.maxsize

\* C31 witness: one operation raised with a connection taken, another
\* returned with one, and no connection is outside the pool
C31_Witness ==
    /\ db.held = {}
    /\ \E s, t \in OpTasks :
          /\ db.tasks[s].pc = "idle" /\ db.tasks[s].got /\ db.tasks[s].out = "raised"
          /\ db.tasks[t].pc = "idle" /\ db.tasks[t].got /\ db.tasks[t].out = "returned"

\* every non-empty list of objects of a JSON value, with its key path,
\* wherever it is: under a key, in a list, in an object of such a list
RECURSIVE ObjectListsAt(_, _)
ObjectListsAt(value, path) ==
    (IF IsObjectList(value) THEN {[section |-> path, items |-> value.items]} ELSE {})
    \cup UNION {ObjectListsAt(value.kv[i].v, Append(path, value.kv[i].k)) :
                   i \in 1..Len(value.kv)}
    \cup UNION {ObjectListsAt(value.items[i], Append(path, IndexKey(path, i))) :
                   i \in 1..Len(value.items)}

\* C32: every non-empty list of objects at any path of the payload, lists
\* inside the objects of another list of objects included, is a candidate
\* section under its key path, and every object of it with a non-empty token
\* yields one event with source json.
C32_EveryObjectListIsCandidate ==
    last.what = "_extract_events_from_json" =>
        \A c \in ObjectListsAt(arg.payload, <<>>) :
            \A i \in 1..Len(c.items) :
                LET token == _select_first(c.items[i], TOKEN_KEYS)
                IN  token # "absent" =>
                        Cardinality({k \in 1..Len(ret) :
                                        /\ ret[k].token = token
                                        /\ ret[k].section = _normalize_section(c.section)
                                        /\ ret[k].source = "json"}) = 1

\* the heading that a container of the document directly follows
OwnHeading(nodes, j) == nodes[j - 1].text

\* C33: in a document that is a sequence of section headings, each followed by
\* its own table or div, every event parsed from a container has the section
\* of that container's own heading; the rows of a table that follows a later
\* heading are not emitted under the section of an earlier heading.
C33_SectionOfOwnHeading ==
    last.what = "parse_html_document" =>
        \A k \in 1..Len(ret) :
            \A j \in 1..Len(arg.nodes) :
                (\E i \in 1..Len(arg.nodes[j].rows) :
                    arg.nodes[j].rows[i].token = ret[k].token)
                    => ret[k].section = OwnHeading(arg.nodes, j)

\* C34: parse_event_time is total: for every raw time string, the strings
\* with a pattern d{1,2}:dd whose hour is above 23 or whose minute is above 59
\* included, it returns an instant or absent and does not raise.
C34_ParseEventTimeTotal ==
    last.what = "parse_event_time" => (ret = NoTime \/ ret >= 0)

\* C35: for every notification row, the token stored in its metadata is the
\* token of the event row its event_id references, also after a tick in which
\* upsert_events skipped an event that precedes other events of the list.
C35_MetadataTokenOfEventRow ==
    \A i \in NotifIds : notifs[i].meta_token = events[notifs[i].event_id].token

\* C36 as stated: at every tick boundary, for every notification row, the
\* number of its log rows equals its attempts counter, attempts is 0 or 1,
\* the status is pending iff attempts = 0, and every log row has attempt_no 1.
C36_AttemptAccountingEveryBoundary ==
    pc = "idle" =>
        \A id \in NotifIds :
            /\ Cardinality(LogsOf(id)) = notifs[id].attempts
            /\ notifs[id].attempts \in {0, 1}
            /\ (notifs[id].status = "pending") <=> (notifs[id].attempts = 0)
            /\ \A k \in LogsOf(id) : logs[k].attempt_no = 1

\* C36: at the boundary of every tick, attempts is 0 or 1 and the status is
\* pending iff attempts = 0; a log row is written with attempt_no equal to the
\* attempts value before the mark plus 1, which is 1; the number of log rows
\* of a notification row equals its attempts counter as long as no statement
\* of the store has raised, and exceeds it by at most one after that.
C36_AttemptAccounting ==
    /\ pc = "idle" =>
          \A id \in NotifIds :
              /\ notifs[id].attempts \in {0, 1}
              /\ (notifs[id].status = "pending") <=> (notifs[id].attempts = 0)
              /\ \A k \in LogsOf(id) : logs[k].attempt_no = 1
              /\ "dispatch" \notin dead =>
                    Cardinality(LogsOf(id)) = notifs[id].attempts
              /\ Cardinality(LogsOf(id)) \in {notifs[id].attempts, notifs[id].attempts + 1}
    /\ pc = "mark" =>
          /\ logs # <<>>
          /\ logs[Len(logs)].notification_id = Head(tasks).id
          /\ logs[Len(logs)].attempt_no = notifs[Head(tasks).id].attempts + 1

\* C36 witness: a tick has returned after it logged and marked a row, and
\* another row is still pending without a log row.
C36_Witness ==
    /\ pc = "idle"
    /\ "dispatch" \notin dead
    /\ \E id \in NotifIds : notifs[id].attempts = 1 /\ Cardinality(LogsOf(id)) = 1
    /\ \E id \in NotifIds : notifs[id].attempts = 0 /\ LogsOf(id) = {}

\* the rows the running tick has still to resolve
TaskIds == {tasks[k].id : k \in 1..Len(tasks)}

\* C37: every row returned by fetch_due_notifications in a tick is sent or
\* failed when the tick returns, whatever the endpoint answered: while the tick
\* runs, the rows that are pending and due at its now are exactly the tasks it
\* has still to resolve, every row it has passed is sent or failed, and when
\* it returns no row due at its now is pending.
C37_DueRowsResolved ==
    pc \in {"loop", "log", "mark"} =>
        /\ DueIds(notifs, events, dnow) = TaskIds
        /\ \A id \in NotifIds :
              (hist[id].at = dnow /\ id \notin TaskIds) => Terminal(notifs[id])
        /\ tasks = <<>> => \A id \in NotifIds :
                              notifs[id].remind_at <= dnow => Terminal(notifs[id])

\* C37 witness: a tick is about to return after it resolved two due rows, one
\* of them by a send that failed on every try.
C37_Witness ==
    /\ pc = "loop"
    /\ tasks = <<>>
    /\ \E a, b \in NotifIds :
          /\ a # b
          /\ hist[a].at = dnow /\ hist[b].at = dnow
          /\ notifs[a].status = "failed" /\ hist[a].sends = 1

\* C38: a successful send is not repeated because of a store error: when
\* notifier.send has returned successfully for a row and the
\* log_notification_attempt that follows raises, the row is not pending at the
\* tick boundary the exception leads to, so that no later tick selects it.
C38_SentRowNotPendingAfterStoreError ==
    [][(pc = "log" /\ res.success /\ pc' = "idle") =>
          notifs'[Head(tasks).id].status # "pending"]_vars

\* the offset reminders of the last evaluate are for events that have not
\* started and start within ahead_minutes, and an evaluate in the state the
\* last one left returns the same reminders
InsideWindowAndRepeatable ==
    last.what = "evaluate" =>
        /\ \A k \in 1..Len(ret) :
              ret[k].offset_minutes # NoOffset =>
                  /\ ret[k].event.start_time # NoTime
                  /\ ~(clock > ret[k].event.start_time)
                  /\ ~(ret[k].event.start_time - clock > arg.engine.ahead_minutes)
        /\ ret = evaluate(arg.events, clock, arg.engine, state)

====
